---- MODULE Spec2Model ----
(***************************************************************************)
(* Model of the Odoo JSON-RPC POS adapter                                  *)
(* (services/api/app/pos_adapters/odoo_jsonrpc.py).                        *)
(*                                                                         *)
(* One OdooPosAdapter instance (one OdooJsonRpcClient, one _uid slot)      *)
(* talks to one ERP.  Every public adapter operation is one action; the    *)
(* Python functions are operators that thread a "world" record (identity   *)
(* slot, posts issued, ERP state) and return [exc, val, w] so that the     *)
(* raising of an exception is an ordinary value.                           *)
(***************************************************************************)
EXTENDS Integers, Sequences, FiniteSets, TLC

VARIABLES
    uid,        \* OdooJsonRpcClient._uid (PyNone until authenticated)
    erp,        \* the ERP: product catalogue, sale orders, submitted pos orders
    calls,      \* the call_kw invocations of the last operation, in order
    posts,      \* the HTTP posts issued by the last operation, in order
    authPosts,  \* number of /web/session/authenticate posts over the lifetime
    last,       \* the last operation: its name, input and outcome
    hist,       \* outcomes of the draft-order checkouts so far, oldest first
    nops,       \* number of operations performed on the adapter
    threads,    \* the threads inside call_kw on the one transport: where each is
    scans       \* the scan subsystem: _SCAN_STORE, the stores, the image
                \* directory and the request threads of the scan routes

vars == <<uid, erp, calls, posts, authPosts, last, hist, nops, threads, scans>>

----------------------------------------------------------------------------
(* Bounds of the model.                                                    *)

MaxLines == 2
MaxOps == 2
MaxThreads == 2

----------------------------------------------------------------------------
(* Python values.  Untyped values (JSON results, Optional fields) are      *)
(* tagged records so that None, numbers and strings can be told apart.     *)

PyNone == [t |-> "none"]
PyInt(n) == [t |-> "int", v |-> n]
PyStr(s) == [t |-> "str", s |-> s]
PyBool(b) == [t |-> "bool", b |-> b]
PyRows(rows) == [t |-> "rows", rows |-> rows]

\* Python truthiness of a JSON value (`if x`, `x or y`).
Truthy(x) ==
    CASE x.t = "none" -> FALSE
      [] x.t = "int" -> x.v # 0
      [] x.t = "str" -> x.s # ""
      [] x.t = "bool" -> x.b
      [] x.t = "rows" -> x.rows # <<>>
      [] OTHER -> TRUE

NoExc == [kind |-> "none", msg |-> <<>>]
Raise(kind, msg) == [kind |-> kind, msg |-> msg]
OdooJsonRpcError(msg) == Raise("OdooJsonRpcError", msg)

\* A returned value / a raised exception, with the world after the call.
Ret(val, w) == [exc |-> NoExc, val |-> val, w |-> w]
Exc(e, w) == [exc |-> e, val |-> PyNone, w |-> w]
Raised(r) == r.exc.kind # "none"

\* `v = ...` followed by the statements that use v.
Bind(v, F(_)) == F(v)

\* `part in msg` on messages kept as sequences of text fragments.
Contains(msg, part) ==
    \E i \in 0..(Len(msg) - Len(part)) : SubSeq(msg, i + 1, i + Len(part)) = part

----------------------------------------------------------------------------
(* The ERP (outside the repository): what it holds and how it answers one  *)
(* JSON-RPC post.  A "script" names at most one post of an operation that  *)
(* the ERP or the network answers badly, and how.                          *)

SkuField == "default_code"
ErpUid == 1

\* product.product rows in the ERP's default order.  CatDup holds two
\* products with the same default_code.
CatPlain ==
    << [id |-> 10, default_code |-> "A", name |-> "Apple", lst_price |-> PyInt(3335)],
       [id |-> 20, default_code |-> "B", name |-> "Bread", lst_price |-> PyNone] >>
CatDup ==
    << [id |-> 10, default_code |-> "A", name |-> "Apple", lst_price |-> PyInt(3335)],
       [id |-> 11, default_code |-> "A", name |-> "Apple2", lst_price |-> PyInt(1005)],
       [id |-> 20, default_code |-> "B", name |-> "Bread", lst_price |-> PyNone] >>
Catalogues == {CatPlain, CatDup}

\* pos.session rows: id -> state.  Session ids outside the domain do not exist.
Sessions ==
    (1 :> "opened") @@ (2 :> "closing_control") @@ (3 :> "closed")
    @@ (4 :> "opening_control")

RespKinds == {"ok", "rpc_error", "http_status", "request_error", "null", "garbage"}
FaultKinds == RespKinds \ {"ok"}
NoFault == [at |-> 0, kind |-> "ok"]
ErrText == "Access Denied"

InitErp(cat) == [products |-> cat, orders |-> <<>>, posOrders |-> <<>>]

\* The first `n` elements of a sequence (search_read's limit).
Take(s, n) == SubSeq(s, 1, IF n < Len(s) THEN n ELSE Len(s))

InSeq(x, s) == \E i \in 1..Len(s) : s[i] = x

\* search_read on product.product with domain [[field, "in", skus]].
ErpSearchProducts(e, skus, limit) ==
    Take(SelectSeq(e.products, LAMBDA p : InSeq(p.default_code, skus)), limit)

\* search_read on pos.session with domain [["id", "=", session_id]].
ErpSearchSession(session_id, limit) ==
    IF session_id \in DOMAIN Sessions /\ limit >= 1
    THEN << [id |-> session_id, state |-> Sessions[session_id]] >>
    ELSE << >>

\* The ERP performing the method of a call_kw post: [erp, result].  Of a
\* sale order it keeps the id and the state, of a pos order the uuid.
ErpCallKw(e, post) ==
    CASE post.model = "product.product" /\ post.method = "search_read" ->
            [erp |-> e,
             result |-> PyRows(ErpSearchProducts(e, post.args.skus, post.kwargs.limit))]
      [] post.model = "pos.session" /\ post.method = "search_read" ->
            [erp |-> e,
             result |-> PyRows(ErpSearchSession(post.args.session_id, post.kwargs.limit))]
      [] post.model = "sale.order" /\ post.method = "create" ->
            LET id == Len(e.orders) + 1
            IN  [erp |-> [e EXCEPT !.orders =
                            Append(@, [id |-> id, state |-> "draft"])],
                 result |-> PyInt(id)]
      [] post.model = "sale.order" /\ post.method = "action_confirm" ->
            LET id == post.args.ids[1]
            IN  [erp |-> IF id \in 1..Len(e.orders)
                         THEN [e EXCEPT !.orders[id].state = "sale"]
                         ELSE e,
                 result |-> PyBool(TRUE)]
      [] post.model = "pos.order" /\ post.method = "sync_from_ui" ->
            [erp |-> [e EXCEPT !.posOrders = Append(@, post.args.orders[1].uuid)],
             result |-> PyBool(TRUE)]
      [] OTHER -> [erp |-> e, result |-> PyNone]

\* How the n-th post of the operation is answered.
RespKind(script, n) == IF script.at = n THEN script.kind ELSE "ok"

\* What comes back for a post answered as `kind`; `done` is the ERP having
\* performed the method.  [http, error, result]: a transport failure, the
\* "error" member of the JSON body, or its "result" member.
Reply(kind, isAuth, done) ==
    CASE kind = "request_error" ->
            [http |-> "request_error", error |-> PyNone, result |-> PyNone]
      [] kind = "http_status" ->
            [http |-> "status", error |-> PyNone, result |-> PyNone]
      [] kind = "rpc_error" ->
            [http |-> "ok", error |-> PyStr(ErrText), result |-> PyNone]
      [] kind = "null" ->
            [http |-> "ok", error |-> PyNone, result |-> PyNone]
      [] kind = "garbage" ->
            [http |-> "ok", error |-> PyNone, result |-> PyStr("not-an-int")]
      [] OTHER ->
            [http |-> "ok", error |-> PyNone,
             result |-> IF isAuth THEN PyInt(ErpUid) ELSE done.result]

\* The world after a post answered as `kind` with `reply`: the exchange is
\* recorded, the ERP has acted only when it answered normally.
Posted(w, post, kind, isAuth, done, reply) ==
    [http |-> reply.http, error |-> reply.error, result |-> reply.result,
     w |-> [w EXCEPT !.posts = Append(@, [post |-> post, reply |-> reply]),
                     !.authPosts = IF isAuth THEN @ + 1 ELSE @,
                     !.erp = IF kind = "ok" /\ ~isAuth THEN done.erp ELSE @]]

PostAs(w, post, kind, isAuth, done) ==
    Posted(w, post, kind, isAuth, done, Reply(kind, isAuth, done))

\* httpx.Client.post
Post(w, post) ==
    PostAs(w, post, RespKind(w.script, Len(w.posts) + 1),
           post.endpoint = "/web/session/authenticate", ErpCallKw(w.erp, post))

----------------------------------------------------------------------------
(* OdooJsonRpcClient                                                       *)

AuthPost ==
    [endpoint |-> "/web/session/authenticate", model |-> "", method |-> "",
     args |-> PyNone, kwargs |-> PyNone]

\* int(x) on a JSON value: [ok, v] or the exception kind it raises.
PyIntOf(x) ==
    CASE x.t = "int" -> [exc |-> "none", v |-> x.v]
      [] x.t = "bool" -> [exc |-> "none", v |-> IF x.b THEN 1 ELSE 0]
      [] x.t = "none" -> [exc |-> "TypeError", v |-> 0]
      [] x.t = "rows" -> [exc |-> "TypeError", v |-> 0]
      [] OTHER -> [exc |-> "ValueError", v |-> 0]

\* An authenticate that assigns the slot before it looks whether the
\* response carries an identity (self._uid = int(uid or 0)).
authenticate_storesBeforeCheck(w) ==
    Bind(Post(w, AuthPost), LAMBDA res :
        CASE res.http = "request_error" ->
                Exc(Raise("httpx.RequestError", <<"request failed">>), res.w)
          [] res.http = "status" ->
                Exc(Raise("httpx.HTTPStatusError", <<"HTTP status">>), res.w)
          [] Truthy(res.error) ->
                Exc(OdooJsonRpcError(<<"authenticate error", ": ", res.error.s>>), res.w)
          [] ~Truthy(res.result) ->
                Exc(OdooJsonRpcError(<<"authenticate failed", ": ", "data">>),
                    [res.w EXCEPT !.uid = PyInt(0)])
          [] PyIntOf(res.result).exc # "none" ->
                Exc(Raise(PyIntOf(res.result).exc, <<"int()">>), res.w)
          [] OTHER ->
                Ret(PyInt(PyIntOf(res.result).v),
                    [res.w EXCEPT !.uid = PyInt(PyIntOf(res.result).v)]))

\* An authenticate that looks at the identity slot again before it posts.
authenticate_guarded(w) ==
    IF w.uid # PyNone THEN Ret(w.uid, w)
    ELSE Bind(Post(w, AuthPost), LAMBDA res :
        CASE res.http = "request_error" ->
                Exc(Raise("httpx.RequestError", <<"request failed">>), res.w)
          [] res.http = "status" ->
                Exc(Raise("httpx.HTTPStatusError", <<"HTTP status">>), res.w)
          [] Truthy(res.error) ->
                Exc(OdooJsonRpcError(<<"authenticate error", ": ", res.error.s>>), res.w)
          [] ~Truthy(res.result) ->
                Exc(OdooJsonRpcError(<<"authenticate failed", ": ", "data">>), res.w)
          [] PyIntOf(res.result).exc # "none" ->
                Exc(Raise(PyIntOf(res.result).exc, <<"int()">>), res.w)
          [] OTHER ->
                Ret(PyInt(PyIntOf(res.result).v),
                    [res.w EXCEPT !.uid = PyInt(PyIntOf(res.result).v)]))

\* OdooJsonRpcClient.authenticate.  For the authenticate post `result`
\* stands for result["uid"].
authenticate(w) ==
    Bind(Post(w, AuthPost), LAMBDA res :
        CASE res.http = "request_error" ->
                Exc(Raise("httpx.RequestError", <<"request failed">>), res.w)
          [] res.http = "status" ->
                Exc(Raise("httpx.HTTPStatusError", <<"HTTP status">>), res.w)
          [] Truthy(res.error) ->
                Exc(OdooJsonRpcError(<<"authenticate error", ": ", res.error.s>>), res.w)
          [] ~Truthy(res.result) ->
                Exc(OdooJsonRpcError(<<"authenticate failed", ": ", "data">>), res.w)
          [] PyIntOf(res.result).exc # "none" ->
                Exc(Raise(PyIntOf(res.result).exc, <<"int()">>), res.w)
          [] OTHER ->
                Ret(PyInt(PyIntOf(res.result).v),
                    [res.w EXCEPT !.uid = PyInt(PyIntOf(res.result).v)]))

\* The part of call_kw after the lazy authentication.
CallKwPost(auth, post) ==
    IF Raised(auth) THEN auth
    ELSE Bind(Post(auth.w, post), LAMBDA res :
        CASE res.http = "request_error" ->
                Exc(Raise("httpx.RequestError", <<"request failed">>), res.w)
          [] res.http = "status" ->
                Exc(Raise("httpx.HTTPStatusError", <<"HTTP status">>), res.w)
          [] Truthy(res.error) ->
                Exc(OdooJsonRpcError(<<"call_kw error", ": ", res.error.s>>), res.w)
          [] OTHER -> Ret(res.result, res.w))

\* A call_kw that authenticates before every call.
CallKwAuth_always(w0) == authenticate(w0)

\* The invocation is recorded, then `if self._uid is None: self.authenticate()`.
CallKwAuth(w0) == IF w0.uid = PyNone THEN authenticate(w0) ELSE Ret(w0.uid, w0)

\* OdooJsonRpcClient.call_kw.
call_kw(w, model, method, args, kwargs) ==
    CallKwPost(CallKwAuth([w EXCEPT !.calls =
                              Append(@, [model |-> model, method |-> method,
                                         args |-> args, kwargs |-> kwargs])]),
               [endpoint |-> "/web/dataset/call_kw", model |-> model,
                method |-> method, args |-> args, kwargs |-> kwargs])

----------------------------------------------------------------------------
(* OdooPosAdapter: configuration and common utilities                      *)

\* OdooConfig defaults.
default_partner_id == 1
default_pricelist_id == PyNone

Max(a, b) == IF a >= b THEN a ELSE b

\* The loop of resolve_products_by_sku: later rows overwrite earlier ones
\* with the same key; rows with a falsy key are skipped.
RECURSIVE ResolveRows(_, _, _)
ResolveRows(rows, i, out) ==
    IF i > Len(rows) THEN out
    ELSE LET row == rows[i]
             key == row.default_code
             entry == [id |-> row.id, name |-> row.name,
                       lst_price |-> IF Truthy(row.lst_price) THEN row.lst_price.v ELSE 0]
         IN  IF key # ""
             THEN ResolveRows(rows, i + 1,
                              [k \in (DOMAIN out) \cup {key} |->
                                  IF k = key THEN entry ELSE out[k]])
             ELSE ResolveRows(rows, i + 1, out)

EmptyDict == [k \in {} |-> 0]

\* The mapping returned is also noted in the world (`resolved`).
Resolved(out, w) == Ret(out, [w EXCEPT !.resolved = [t |-> "dict", d |-> out]])

\* A resolver that looks the SKUs up one by one.
RECURSIVE LookupEach(_, _, _, _)
LookupEach(w, skus, i, out) ==
    IF i > Len(skus) THEN Resolved(out, w)
    ELSE Bind(call_kw(w, "product.product", "search_read",
                      [t |-> "product_search", field |-> SkuField, skus |-> <<skus[i]>>,
                       fields |-> <<"id", SkuField, "name", "lst_price">>],
                      [limit |-> 1]),
              LAMBDA r :
                 IF Raised(r) THEN r
                 ELSE IF ~Truthy(r.val) \/ r.val.t # "rows"
                      THEN LookupEach(r.w, skus, i + 1, out)
                 ELSE LookupEach(r.w, skus, i + 1, ResolveRows(r.val.rows, 1, out)))

resolve_products_by_sku_perSku(w, skus) == LookupEach(w, skus, 1, EmptyDict)

\* OdooPosAdapter.resolve_products_by_sku: one search_read, whatever `skus`.
resolve_products_by_sku(w, skus) ==
    Bind(call_kw(w, "product.product", "search_read",
                 [t |-> "product_search", field |-> SkuField, skus |-> skus,
                  fields |-> <<"id", SkuField, "name", "lst_price">>],
                 [limit |-> Max(1, Len(skus))]),
         LAMBDA r :
            IF Raised(r) THEN r
            ELSE IF ~Truthy(r.val) THEN Resolved(EmptyDict, r.w)
            ELSE IF r.val.t # "rows"
                 THEN Exc(Raise("AttributeError",
                                <<"'str' object has no attribute 'get'">>), r.w)
            ELSE Resolved(ResolveRows(r.val.rows, 1, EmptyDict), r.w))

\* OdooPosAdapter.resolve_product_ids_by_sku.
resolve_product_ids_by_sku(w, skus) ==
    Bind(resolve_products_by_sku(w, skus), LAMBDA r :
        IF Raised(r) THEN r
        ELSE Ret([sku \in DOMAIN r.val |-> r.val[sku].id], r.w))

SkuList(lines) == [i \in 1..Len(lines) |-> lines[i].sku]

----------------------------------------------------------------------------
(* Draft-order flow (sale.order)                                           *)

\* One order_line command (0, 0, vals): price_unit only when overridden.
SaleLineVals(pid, line) ==
    IF line.price_unit # PyNone
    THEN [product_id |-> pid, product_uom_qty |-> line.qty,
          price_unit |-> line.price_unit.v]
    ELSE [product_id |-> pid, product_uom_qty |-> line.qty]

\* A loop that leaves out the lines whose SKU did not resolve.
RECURSIVE SaleOrderLines_skipUnknown(_, _, _, _)
SaleOrderLines_skipUnknown(lines, sku_to_pid, i, acc) ==
    IF i > Len(lines) THEN [unknown |-> "", found |-> TRUE, order_lines |-> acc]
    ELSE IF lines[i].sku \notin DOMAIN sku_to_pid
         THEN SaleOrderLines_skipUnknown(lines, sku_to_pid, i + 1, acc)
         ELSE SaleOrderLines_skipUnknown(lines, sku_to_pid, i + 1,
                 Append(acc, SaleLineVals(sku_to_pid[lines[i].sku], lines[i])))

\* The loop of create_sale_order_draft over the lines: the order lines
\* built, or the first line whose SKU did not resolve.
RECURSIVE SaleOrderLines(_, _, _, _)
SaleOrderLines(lines, sku_to_pid, i, acc) ==
    IF i > Len(lines) THEN [unknown |-> "", found |-> TRUE, order_lines |-> acc]
    ELSE LET line == lines[i]
             pid == IF line.sku \in DOMAIN sku_to_pid THEN sku_to_pid[line.sku] ELSE 0
         IN  IF pid = 0
             THEN [unknown |-> line.sku, found |-> FALSE, order_lines |-> acc]
             ELSE SaleOrderLines(lines, sku_to_pid, i + 1,
                                 Append(acc, SaleLineVals(pid, line)))

\* The so_vals dictionary: optional keys are present only when set.
SoVals(partner_id, order_lines, pricelist_id, note) ==
    [partner_id |-> partner_id, order_line |-> order_lines]
    @@ (IF pricelist_id # PyNone THEN [pricelist_id |-> pricelist_id.v] ELSE EmptyDict)
    @@ (IF Truthy(note) THEN [note |-> note.s] ELSE EmptyDict)

\* int(so_id) on what sale.order create returned.
IntOfCreated(created, conv) ==
    IF conv.exc # "none" THEN Exc(Raise(conv.exc, <<"int()">>), created.w)
    ELSE Ret(PyInt(conv.v), created.w)

\* A draft creation that hands back the order the ERP already holds
\* instead of creating another one.
create_sale_order_draft_reuse(w, partner_id, lines, pricelist_id, note) ==
    Bind(resolve_product_ids_by_sku(w, SkuList(lines)), LAMBDA res :
        IF Raised(res) THEN res
        ELSE Bind(SaleOrderLines(lines, res.val, 1, <<>>), LAMBDA built :
            IF ~built.found
            THEN Exc(OdooJsonRpcError(<<"Unknown SKU", ": ", built.unknown>>), res.w)
            ELSE IF res.w.erp.orders # <<>>
            THEN Ret(PyInt(res.w.erp.orders[Len(res.w.erp.orders)].id), res.w)
            ELSE Bind(call_kw(res.w, "sale.order", "create",
                              [t |-> "create",
                               vals |-> SoVals(partner_id, built.order_lines,
                                               pricelist_id, note)],
                              EmptyDict),
                      LAMBDA created :
                         IF Raised(created) THEN created
                         ELSE IntOfCreated(created, PyIntOf(created.val)))))

\* OdooPosAdapter.create_sale_order_draft.
create_sale_order_draft(w, partner_id, lines, pricelist_id, note) ==
    Bind(resolve_product_ids_by_sku(w, SkuList(lines)), LAMBDA res :
        IF Raised(res) THEN res
        ELSE Bind(SaleOrderLines(lines, res.val, 1, <<>>), LAMBDA built :
            IF ~built.found
            THEN Exc(OdooJsonRpcError(<<"Unknown SKU", ": ", built.unknown>>), res.w)
            ELSE Bind(call_kw(res.w, "sale.order", "create",
                              [t |-> "create",
                               vals |-> SoVals(partner_id, built.order_lines,
                                               pricelist_id, note)],
                              EmptyDict),
                      LAMBDA created :
                         IF Raised(created) THEN created
                         ELSE IntOfCreated(created, PyIntOf(created.val)))))

\* A confirmation that is tried a second time when it fails.
confirm_sale_order_retry(w, sale_order_id) ==
    Bind(call_kw(w, "sale.order", "action_confirm",
                 [t |-> "ids", ids |-> <<sale_order_id>>], EmptyDict),
         LAMBDA r :
            IF Raised(r)
            THEN call_kw(r.w, "sale.order", "action_confirm",
                         [t |-> "ids", ids |-> <<sale_order_id>>], EmptyDict)
            ELSE r)

\* OdooPosAdapter.confirm_sale_order.
confirm_sale_order(w, sale_order_id) ==
    call_kw(w, "sale.order", "action_confirm",
            [t |-> "ids", ids |-> <<sale_order_id>>], EmptyDict)

\* CheckoutResult
CheckoutResult(ok, target, record_id, raw, message) ==
    [ok |-> ok, target |-> target, record_id |-> record_id, raw |-> raw,
     message |-> message]

\* A failure result that keeps no message.
CheckoutFailed_noMessage(r) ==
    Ret(CheckoutResult(FALSE, "sale.order", PyNone, PyNone, PyNone), r.w)

\* `except Exception as exc`: the ok=False result carrying str(exc).
CheckoutFailed(r) ==
    Ret(CheckoutResult(FALSE, "sale.order", PyNone, PyNone,
                       [t |-> "msg", msg |-> r.exc.msg]), r.w)

\* A success result that drops what the confirmation answered.
CheckoutSucceeded_noRaw(so_id, confirmed) ==
    Ret(CheckoutResult(TRUE, "sale.order", so_id, PyNone, PyNone), confirmed.w)

\* The result of a checkout whose draft was created and confirmed.
CheckoutSucceeded(so_id, confirmed) ==
    Ret(CheckoutResult(TRUE, "sale.order", so_id,
                       [t |-> "dict", confirm_result |-> confirmed.val], PyNone),
        confirmed.w)

\* A checkout that reports the draft's id when the confirmation failed.
checkout_keepsRecordId(w, req) ==
    Bind(create_sale_order_draft(w, default_partner_id, req.lines,
                                 default_pricelist_id, req.note),
         LAMBDA created :
            IF Raised(created) THEN CheckoutFailed(created)
            ELSE Bind(confirm_sale_order(created.w, created.val.v), LAMBDA confirmed :
                    IF Raised(confirmed)
                    THEN Ret(CheckoutResult(FALSE, "sale.order", created.val, PyNone,
                                            [t |-> "msg", msg |-> confirmed.exc.msg]),
                             confirmed.w)
                    ELSE CheckoutSucceeded(created.val, confirmed)))

\* OdooPosAdapter.checkout: every exception is turned into an ok=False result.
checkout(w, req) ==
    Bind(create_sale_order_draft(w, default_partner_id, req.lines,
                                 default_pricelist_id, req.note),
         LAMBDA created :
            IF Raised(created) THEN CheckoutFailed(created)
            ELSE Bind(confirm_sale_order(created.w, created.val.v), LAMBDA confirmed :
                    IF Raised(confirmed) THEN CheckoutFailed(confirmed)
                    ELSE CheckoutSucceeded(created.val, confirmed)))

----------------------------------------------------------------------------
(* Binary floating point.  Prices are kept in thousandths (3335 is 3.335), *)
(* quantities are whole numbers, amounts are kept in cents.  Python holds  *)
(* a price as the IEEE-754 double nearest to it, multiplies in doubles and *)
(* round(v, 2) rounds the exact binary value of v (ties to even).  The     *)
(* operators below compute that result exactly with small integers: the    *)
(* double nearest to p/1000 is M * 2^(e-52) with                           *)
(*     p * 2^(52-e) = 1000 * Mf + r,  0 <= r < 1000,  M = Mf + up.         *)

RECURSIVE Pow2(_)
Pow2(n) == IF n <= 0 THEN 1 ELSE 2 * Pow2(n - 1)

RECURSIVE PowMod2(_, _)
PowMod2(n, modulus) == IF n <= 0 THEN 1 % modulus ELSE (2 * PowMod2(n - 1, modulus)) % modulus

\* e with 2^e <= a/b < 2^(e+1), for a, b > 0.
RECURSIVE Log2Floor(_, _)
Log2Floor(a, b) ==
    IF a < b THEN Log2Floor(2 * a, b) - 1
    ELSE IF a >= 2 * b THEN Log2Floor(a, 2 * b) + 1
    ELSE 0

\* a * 2^n compared with b * 2^m  (-1, 0, 1), exponents of either sign.
CmpScaled(a, n, b, m) ==
    LET lo == IF n < m THEN n ELSE m
        x == a * Pow2(n - lo)
        y == b * Pow2(m - lo)
    IN  IF x < y THEN -1 ELSE IF x > y THEN 1 ELSE 0

\* float(p/1000) * q, compared with the exact p*q/1000: the sign of the
\* result is the sign of (double product - exact product).
DoubleProductError(p, q) ==
    LET e == Log2Floor(p, 1000)
        \* exponent of the product: e + k, k extra bits to round away
        r == ((p % 1000) * PowMod2(52 - e, 1000)) % 1000
        kExact == Log2Floor(p * q, 1000) - e
        modulus(k) == 1000 * Pow2(k + 1)
        mfLow(k) == ((((p % modulus(k)) * PowMod2(52 - e, modulus(k))) % modulus(k)) - r) \div 1000
        up == IF 2 * r > 1000 \/ (2 * r = 1000 /\ mfLow(0) % 2 = 1) THEN 1 ELSE 0
        \* M*q >= 2^(52+j)  iff  q*p + q*(1000*up - r)/2^(52-e) >= 1000 * 2^(e+j)
        reaches(j) ==
            LET c == CmpScaled(p * q, 0, 1000, e + j)
            IN  c > 0 \/ (c = 0 /\ 1000 * up - r >= 0)
        k == IF reaches(kExact + 1) THEN kExact + 1
             ELSE IF reaches(kExact) THEN kExact ELSE kExact - 1
        pLow == (((mfLow(k) + up) % Pow2(k + 1)) * q) % Pow2(k + 1)
        low == pLow % Pow2(k)
        half == Pow2(k - 1)
        d == IF k = 0 \/ low = 0 THEN 0
             ELSE IF low < half THEN 0 - low
             ELSE IF low > half THEN Pow2(k) - low
             ELSE IF pLow \div Pow2(k) = 0 THEN 0 - low ELSE Pow2(k) - low
    IN  1000 * (q * up + d) - q * r

\* round(float(p/1000) * q, 2), in cents.
RoundedSubtotal(p, q) ==
    LET m == p * q
        err == IF m = 0 THEN 0 ELSE DoubleProductError(p, q)
    IN  IF m % 10 # 5 THEN (m + 5) \div 10
        ELSE IF err > 0 THEN m \div 10 + 1
        ELSE IF err < 0 THEN m \div 10
        ELSE m \div 10 + ((m \div 10) % 2)

----------------------------------------------------------------------------
(* Session-order flow (pos.order.sync_from_ui)                             *)

\* A session check that turns away closed sessions only.
assert_pos_session_exists_closedOnly(w, session_id) ==
    Bind(call_kw(w, "pos.session", "search_read",
                 [t |-> "session_search", session_id |-> session_id,
                  fields |-> <<"id", "state">>],
                 [limit |-> 1]),
         LAMBDA r :
            IF Raised(r) THEN r
            ELSE IF ~Truthy(r.val)
                 THEN Exc(OdooJsonRpcError(<<"Unknown POS session", ": ",
                                             ToString(session_id)>>), r.w)
            ELSE IF r.val.t # "rows"
                 THEN Exc(Raise("AttributeError",
                                <<"'str' object has no attribute 'get'">>), r.w)
            ELSE IF r.val.rows[1].state = "closed"
                 THEN Exc(OdooJsonRpcError(<<"POS session ", ToString(session_id),
                                             " is not writable", " (state=",
                                             r.val.rows[1].state, ")">>), r.w)
            ELSE Ret(PyNone, r.w))

\* OdooPosAdapter._assert_pos_session_exists.
assert_pos_session_exists(w, session_id) ==
    Bind(call_kw(w, "pos.session", "search_read",
                 [t |-> "session_search", session_id |-> session_id,
                  fields |-> <<"id", "state">>],
                 [limit |-> 1]),
         LAMBDA r :
            IF Raised(r) THEN r
            ELSE IF ~Truthy(r.val)
                 THEN Exc(OdooJsonRpcError(<<"Unknown POS session", ": ",
                                             ToString(session_id)>>), r.w)
            ELSE IF r.val.t # "rows"
                 THEN Exc(Raise("AttributeError",
                                <<"'str' object has no attribute 'get'">>), r.w)
            ELSE IF r.val.rows[1].state \in {"closing_control", "closed"}
                 THEN Exc(OdooJsonRpcError(<<"POS session ", ToString(session_id),
                                             " is not writable", " (state=",
                                             r.val.rows[1].state, ")">>), r.w)
            ELSE Ret(PyNone, r.w))

\* One sync_from_ui line: the unit price is the override or the list price.
PosLine(product, line, unit_price, subtotal) ==
    [product_id |-> product.id, qty |-> line.qty, price_unit |-> unit_price,
     discount |-> 0, price_subtotal |-> subtotal, price_subtotal_incl |-> subtotal,
     tax_ids |-> <<>>]

\* A unit price that is always the list price.
UnitPrice_listOnly(product, line) == product.lst_price

UnitPrice(product, line) ==
    IF line.price_unit # PyNone THEN line.price_unit.v ELSE product.lst_price

PosLineVals(product, line) ==
    PosLine(product, line, UnitPrice(product, line),
            RoundedSubtotal(UnitPrice(product, line), line.qty))

\* A loop that leaves out the lines whose SKU did not resolve.
RECURSIVE PosOrderLines_skipUnknown(_, _, _, _, _)
PosOrderLines_skipUnknown(lines, sku_to_product, i, acc, order_total) ==
    IF i > Len(lines)
    THEN [unknown |-> "", found |-> TRUE, pos_lines |-> acc, order_total |-> order_total]
    ELSE IF lines[i].sku \notin DOMAIN sku_to_product
    THEN PosOrderLines_skipUnknown(lines, sku_to_product, i + 1, acc, order_total)
    ELSE Bind(PosLineVals(sku_to_product[lines[i].sku], lines[i]), LAMBDA vals :
            PosOrderLines_skipUnknown(lines, sku_to_product, i + 1, Append(acc, vals),
                                      order_total + 10 * vals.price_subtotal))

\* The loop of build_pos_order_payload: lines and running total, or
\* the first line whose SKU did not resolve.
RECURSIVE PosOrderLines(_, _, _, _, _)
PosOrderLines(lines, sku_to_product, i, acc, order_total) ==
    IF i > Len(lines)
    THEN [unknown |-> "", found |-> TRUE, pos_lines |-> acc, order_total |-> order_total]
    ELSE IF lines[i].sku \notin DOMAIN sku_to_product
    THEN [unknown |-> lines[i].sku, found |-> FALSE, pos_lines |-> acc,
          order_total |-> order_total]
    ELSE Bind(PosLineVals(sku_to_product[lines[i].sku], lines[i]), LAMBDA vals :
            PosOrderLines(lines, sku_to_product, i + 1, Append(acc, vals),
                          order_total + 10 * vals.price_subtotal))

\* round(order_total, 2), in cents, of a running total kept in thousandths.
\* The total is a float sum of a few values that each are a whole number of
\* cents, so it lies within 2^-40 of a whole number of cents and is never
\* near a half cent: rounding to the nearest cent is exact.
RoundTotal(order_total) == (order_total + 5) \div 10

\* The order dictionary of build_pos_order_payload.
PosPayload(uuid, session_id, partner_id, draft, built) ==
    [uuid |-> uuid,
     session_id |-> session_id,
     state |-> IF draft THEN "draft" ELSE "paid",
     partner_id |-> IF Truthy(partner_id) THEN partner_id ELSE PyBool(FALSE),
     amount_total |-> RoundTotal(built.order_total),
     amount_tax |-> 0,
     amount_paid |-> IF draft THEN 0 ELSE RoundTotal(built.order_total),
     amount_return |-> 0,
     lines |-> built.pos_lines]

\* OdooPosAdapter.build_pos_order_payload.
build_pos_order_payload(w, session_id, lines, partner_id, draft, extra) ==
    Bind(resolve_products_by_sku(w, SkuList(lines)), LAMBDA res :
        IF Raised(res) THEN res
        ELSE Bind(PosOrderLines(lines, res.val, 1, <<>>, 0), LAMBDA built :
            IF ~built.found
            THEN Exc(OdooJsonRpcError(<<"Unknown SKU", ": ", built.unknown>>), res.w)
            ELSE Ret(extra @@ PosPayload(res.w.nonce, session_id, partner_id, draft,
                                         built),
                     res.w)))

PaidUnsupportedMsg == <<"mode='pos' draft=True only", "CREATE_POS_DRAFT=true">>

\* A session-order flow that looks at the draft flag after the session check.
create_pos_order_from_ui_lateGuard(w, session_id, lines, partner_id, draft, extra) ==
    Bind(assert_pos_session_exists(w, session_id), LAMBDA checked :
        IF Raised(checked) THEN checked
        ELSE IF ~draft THEN Exc(OdooJsonRpcError(PaidUnsupportedMsg), checked.w)
        ELSE Bind(build_pos_order_payload(checked.w, session_id, lines, partner_id,
                                          draft, extra),
                  LAMBDA built :
                     IF Raised(built) THEN built
                     ELSE call_kw(built.w, "pos.order", "sync_from_ui",
                                  [t |-> "orders", orders |-> <<built.val>>],
                                  EmptyDict)))

\* OdooPosAdapter.create_pos_order_from_ui.
create_pos_order_from_ui(w, session_id, lines, partner_id, draft, extra) ==
    IF ~draft THEN Exc(OdooJsonRpcError(PaidUnsupportedMsg), w)
    ELSE Bind(assert_pos_session_exists(w, session_id), LAMBDA checked :
        IF Raised(checked) THEN checked
        ELSE Bind(build_pos_order_payload(checked.w, session_id, lines, partner_id,
                                          draft, extra),
                  LAMBDA built :
                     IF Raised(built) THEN built
                     ELSE call_kw(built.w, "pos.order", "sync_from_ui",
                                  [t |-> "orders", orders |-> <<built.val>>],
                                  EmptyDict)))

----------------------------------------------------------------------------
(* Inputs                                                                  *)

\* The CheckoutLine values requests are made of.  "X" is in no catalogue.
LineMenu ==
    { [sku |-> "A", qty |-> 1, price_unit |-> PyNone],
      [sku |-> "A", qty |-> 2, price_unit |-> PyNone],
      [sku |-> "B", qty |-> 1, price_unit |-> PyInt(1005)],
      [sku |-> "X", qty |-> 1, price_unit |-> PyNone] }

SeqsUpTo(S, n) == UNION {[1..k -> S] : k \in 0..n}

LineSeqs == SeqsUpTo(LineMenu, MaxLines)
Notes == {PyNone, PyStr("memo")}

\* CheckoutRequest
CheckoutRequests ==
    {[store_id |-> "store-1", operator_id |-> PyNone, lines |-> ls, note |-> n] :
        ls \in LineSeqs, n \in Notes}

SessionIds == (DOMAIN Sessions) \cup {9}
PartnerIds == {PyNone, PyInt(7)}

\* At most one badly answered post per operation; an operation issues at
\* most four posts (authenticate and three calls).
Scripts == {NoFault} \cup [at : 1..4, kind : FaultKinds]

----------------------------------------------------------------------------
(* The adapter as a state machine                                          *)

NoOp == [op |-> "none"]

\* A request thread of the scan routes that serves no request.
ProcIdle ==
    [pc |-> "idle", op |-> "none", scan_id |-> 0, image |-> "", top_k |-> 0,
     store |-> 0, new |-> 0, detections |-> <<>>, resp |-> PyNone]

\* The scan subsystem of a process that has served no scan request:
\* _SCAN_STORE is None (slot 0), no store exists, no image is written,
\* no inference has been answered.
ScansInit ==
    [slot |-> 0, stores |-> <<>>, files |-> {}, nextId |-> 1, nreq |-> 0,
     bare |-> FALSE, answers |-> {},
     procs |-> [t \in 1..MaxThreads |-> ProcIdle]]

\* A thread that has not entered call_kw yet.
ThreadIdle ==
    [pc |-> "idle", saw |-> FALSE, authed |-> FALSE, pending |-> PyNone,
     exc |-> NoExc, val |-> PyNone]

Init ==
    /\ uid = PyNone
    /\ erp \in {InitErp(cat) : cat \in Catalogues}
    /\ calls = <<>>
    /\ posts = <<>>
    /\ authPosts = 0
    /\ last = NoOp
    /\ hist = <<>>
    /\ nops = 0
    /\ threads = [t \in 1..MaxThreads |-> ThreadIdle]
    /\ scans = ScansInit

\* The world an operation starts in.
World(script) ==
    [uid |-> uid, erp |-> erp, calls |-> <<>>, posts |-> <<>>, authPosts |-> authPosts,
     script |-> script, nonce |-> nops + 1, resolved |-> PyNone]

\* The adapter after an operation that ended as `r`.
Finish(op, req, r) ==
    /\ uid' = r.w.uid
    /\ erp' = r.w.erp
    /\ calls' = r.w.calls
    /\ posts' = r.w.posts
    /\ authPosts' = r.w.authPosts
    /\ last' = [op |-> op, req |-> req, exc |-> r.exc, val |-> r.val,
                resolved |-> r.w.resolved]
    /\ nops' = nops + 1
    /\ UNCHANGED <<threads, scans>>

Idle == last = NoOp /\ nops < MaxOps

\* adapter.checkout(req)
Checkout ==
    /\ Idle
    /\ \E req \in CheckoutRequests, script \in Scripts :
          Finish("checkout", req, checkout(World(script), req))
    /\ UNCHANGED hist

\* adapter.create_pos_order_from_ui(session_id, lines, partner_id, draft, extra={})
CreatePosOrderFromUi ==
    /\ Idle
    /\ \E session_id \in SessionIds, lines \in LineSeqs, partner_id \in PartnerIds,
          draft \in BOOLEAN, script \in Scripts :
          Finish("pos", [session_id |-> session_id, lines |-> lines,
                         partner_id |-> partner_id, draft |-> draft],
                 create_pos_order_from_ui(World(script), session_id, lines, partner_id,
                                          draft, EmptyDict))
    /\ UNCHANGED hist

\* adapter.resolve_product_ids_by_sku(skus)
ResolveProductIds ==
    /\ Idle
    /\ \E lines \in LineSeqs, script \in Scripts :
          Finish("resolve", [skus |-> SkuList(lines)],
                 resolve_product_ids_by_sku(World(script), SkuList(lines)))
    /\ UNCHANGED hist

\* The caller takes the result; the adapter is ready for the next operation.
TakeResult ==
    /\ last # NoOp
    /\ last' = NoOp
    /\ calls' = <<>>
    /\ posts' = <<>>
    /\ UNCHANGED <<uid, erp, authPosts, hist, nops, threads, scans>>

Next ==
    \/ Checkout
    \/ CreatePosOrderFromUi
    \/ ResolveProductIds
    \/ TakeResult

Spec == Init /\ [][Next]_vars

----------------------------------------------------------------------------
(* Properties of the draft-order flow                                      *)

\* Positions of the posts / call_kw invocations of the last operation that
\* carry the given method.
PostsOf(method) == {i \in 1..Len(posts) : posts[i].post.method = method}
CallsOf(method) == {i \in 1..Len(calls) : calls[i].method = method}

\* The last operation was a checkout whose product lookup completed and left
\* the SKU of some line without a product.
UnknownSkuCheckout ==
    /\ last.op = "checkout"
    /\ last.resolved # PyNone
    /\ \E i \in 1..Len(last.req.lines) :
          last.req.lines[i].sku \notin DOMAIN last.resolved.d

\* C1: a draft-order checkout in which the SKU of at least one line, at any
\* position, resolves to no product ends with ok = false, target sale.order,
\* no record id and a message containing 'Unknown SKU', and no sale.order
\* create call is issued.
C1_UnknownSkuFails ==
    UnknownSkuCheckout =>
        /\ last.exc = NoExc
        /\ last.val.ok = FALSE
        /\ last.val.target = "sale.order"
        /\ last.val.record_id = PyNone
        /\ last.val.message # PyNone
        /\ Contains(last.val.message.msg, <<"Unknown SKU">>)
        /\ CallsOf("create") = {}
        /\ PostsOf("create") = {}

\* The unresolved line comes second, after a line that resolved.
C1_Witness ==
    /\ UnknownSkuCheckout
    /\ Len(last.req.lines) = 2
    /\ last.req.lines[1].sku \in DOMAIN last.resolved.d
    /\ last.req.lines[2].sku \notin DOMAIN last.resolved.d
    /\ last.val.ok = FALSE
    /\ Contains(last.val.message.msg, <<"Unknown SKU", ": ", last.req.lines[2].sku>>)

\* The last operation was a checkout whose create call was answered with a
\* record id (post i) and whose confirm call returned (post j).
CreatedAndConfirmed(i, j) ==
    /\ last.op = "checkout"
    /\ i \in PostsOf("create") /\ j \in PostsOf("action_confirm")
    /\ posts[i].reply.http = "ok" /\ ~Truthy(posts[i].reply.error)
    /\ posts[i].reply.result.t = "int"
    /\ posts[j].reply.http = "ok" /\ ~Truthy(posts[j].reply.error)

\* C2: when the create call returns the record id N and the confirm call
\* succeeds, the result has ok = true, record_id = N, no message, and carries
\* the response of the confirm call as raw data.
C2_ConfirmedCheckout ==
    \A i, j \in 1..Len(posts) :
        CreatedAndConfirmed(i, j) =>
            /\ last.exc = NoExc
            /\ last.val.ok = TRUE
            /\ last.val.target = "sale.order"
            /\ last.val.record_id = posts[i].reply.result
            /\ last.val.message = PyNone
            /\ last.val.raw = [t |-> "dict", confirm_result |-> posts[j].reply.result]

\* A second order of the ERP, confirmed: record id 2.
C2_Witness ==
    /\ \E i, j \in 1..Len(posts) :
          CreatedAndConfirmed(i, j) /\ posts[i].reply.result = PyInt(2)
                                    /\ posts[j].reply.result = PyBool(TRUE)
    /\ last.val.ok = TRUE
    /\ last.val.record_id = PyInt(2)

\* The last operation was a checkout whose create call (post i) was answered
\* with a record id and whose confirm call (post j) was answered with an
\* error, which call_kw raises as an adapter error.
ConfirmRejected(i, j) ==
    /\ last.op = "checkout"
    /\ i \in PostsOf("create") /\ j \in PostsOf("action_confirm")
    /\ posts[i].reply.http = "ok" /\ ~Truthy(posts[i].reply.error)
    /\ posts[i].reply.result.t = "int"
    /\ posts[j].reply.http = "ok" /\ Truthy(posts[j].reply.error)

\* C3: when create succeeds and confirm raises an adapter error with message
\* M, the result has ok = false, no record id and a message containing M; the
\* confirm call is the last call made (nothing compensates) and the draft
\* order stays in the ERP.
C3_ConfirmFailureLeavesDraft ==
    \A i, j \in 1..Len(posts) :
        ConfirmRejected(i, j) =>
            /\ last.exc = NoExc
            /\ last.val.ok = FALSE
            /\ last.val.record_id = PyNone
            /\ last.val.message # PyNone
            /\ Contains(last.val.message.msg,
                        <<"call_kw error", ": ", posts[j].reply.error.s>>)
            /\ j = Len(posts)
            /\ calls[Len(calls)].method = "action_confirm"
            /\ Len(erp.orders) = posts[i].reply.result.v
            /\ erp.orders[posts[i].reply.result.v].state = "draft"

C3_Witness ==
    /\ \E i, j \in 1..Len(posts) : ConfirmRejected(i, j)
    /\ last.val.ok = FALSE
    /\ Len(erp.orders) = 1
    /\ erp.orders[1].state = "draft"

----------------------------------------------------------------------------
(* Properties of the product resolver                                      *)

\* C4: resolving an empty SKU list returns an empty mapping and issues no
\* remote call: call_kw is never invoked and nothing is posted.
C4_EmptyListIssuesNoCall ==
    (last.op = "resolve" /\ last.req.skus = <<>>) =>
        /\ last.exc = NoExc
        /\ DOMAIN last.val = {}
        /\ calls = <<>>
        /\ posts = <<>>

\* Positions of the product lookups among the call_kw invocations of the
\* last operation.
ProductLookups ==
    {i \in 1..Len(calls) :
        calls[i].model = "product.product" /\ calls[i].method = "search_read"}

\* The one product lookup of the last operation carries exactly `skus`.
OneLookupCarrying(skus) ==
    /\ Cardinality(ProductLookups) = 1
    /\ \A i \in ProductLookups :
          /\ calls[i].args.skus = skus
          /\ calls[i].args.field = SkuField
    /\ Cardinality({i \in 1..Len(posts) : posts[i].post.model = "product.product"}) <= 1

\* C5: one invocation of the resolver with a non-empty list of N SKUs invokes
\* call_kw exactly once, for a product search_read that carries all N SKUs;
\* one checkout performs exactly one product lookup, carrying the SKUs of
\* all its lines, whatever their number.
C5_OneBatchedLookup ==
    /\ (last.op = "resolve" /\ last.req.skus # <<>>) =>
           (Len(calls) = 1 /\ OneLookupCarrying(last.req.skus))
    /\ last.op = "checkout" => OneLookupCarrying(SkuList(last.req.lines))

\* A resolver invocation with two SKUs, answered by the ERP.
C5_Witness ==
    /\ last.op = "resolve"
    /\ Len(last.req.skus) = 2
    /\ last.req.skus[1] # last.req.skus[2]
    /\ last.exc = NoExc
    /\ Len(calls) = 1
    /\ calls[1].args.skus = last.req.skus
    /\ Cardinality(DOMAIN last.val) = 2

----------------------------------------------------------------------------
(* The same request submitted again and again through one adapter          *)

\* What the submissions so far came to: the request, the result and the
\* sale.order create calls the submission made.
Submitted(req) ==
    [req |-> req, val |-> last'.val,
     creates |-> SelectSeq(calls', LAMBDA c : c.method = "create")]

\* adapter.checkout(req): the first submission picks the request, the later
\* ones repeat it.
Submit ==
    /\ Idle
    /\ \E req \in (IF hist = <<>> THEN CheckoutRequests ELSE {hist[1].req}),
          script \in Scripts :
          /\ Finish("checkout", req, checkout(World(script), req))
          /\ hist' = Append(hist, Submitted(req))

NextTwice ==
    \/ Submit
    \/ TakeResult

SpecTwice == Init /\ [][NextTwice]_vars

\* C6: checkout is not idempotent.  Of two submissions of the same request
\* that both succeed, each issues its own sale.order create call, with the
\* same values (nothing in them tells a repetition from a new order), and
\* the two results carry distinct record ids, each the id of an order the
\* ERP holds.
C6_NotIdempotent ==
    \A a, b \in 1..Len(hist) :
        (a < b /\ hist[a].val.ok /\ hist[b].val.ok) =>
            /\ hist[a].req = hist[b].req
            /\ Len(hist[a].creates) = 1 /\ Len(hist[b].creates) = 1
            /\ hist[a].creates = hist[b].creates
            /\ hist[a].val.record_id # hist[b].val.record_id
            /\ hist[a].val.record_id.v \in 1..Len(erp.orders)
            /\ hist[b].val.record_id.v \in 1..Len(erp.orders)
            /\ Len(erp.orders) >= 2

C6_Witness ==
    /\ Len(hist) >= 2
    /\ hist[1].val.ok /\ hist[2].val.ok
    /\ hist[1].req = hist[2].req
    /\ Len(hist[1].req.lines) = 2
    /\ hist[1].val.record_id = PyInt(1)
    /\ hist[2].val.record_id = PyInt(2)

----------------------------------------------------------------------------
(* Properties of the session-order flow                                    *)

\* C7: in the session-order flow a request for the paid variant (draft flag
\* false) fails with the adapter error that carries the configuration
\* guidance, before anything remote: no call_kw invocation (no session
\* check, no product lookup, no sync_from_ui) and no post.
C7_PaidVariantRejectedFirst ==
    (last.op = "pos" /\ ~last.req.draft) =>
        /\ last.exc.kind = "OdooJsonRpcError"
        /\ Contains(last.exc.msg, <<"CREATE_POS_DRAFT=true">>)
        /\ calls = <<>>
        /\ posts = <<>>

\* The paid variant asked of an adapter that is authenticated, for a
\* session that is open.
C7_Witness ==
    /\ last.op = "pos" /\ ~last.req.draft
    /\ last.req.session_id = 1
    /\ last.req.lines # <<>>
    /\ uid # PyNone
    /\ last.exc.kind = "OdooJsonRpcError"

\* Post i of the last operation, a session-order submission, is the session
\* lookup, and the ERP answered it with the rows found.
SessionLookedUp(i) ==
    /\ last.op = "pos"
    /\ posts[i].post.model = "pos.session"
    /\ posts[i].reply.http = "ok" /\ ~Truthy(posts[i].reply.error)
    /\ posts[i].reply.result.t = "rows"

SessionRows(i) == posts[i].reply.result.rows

\* C8: when the session lookup finds no session, or one whose state is
\* closing_control or closed, the flow fails with the adapter error right
\* after that lookup: the lookup is the only call and the last post, no
\* product lookup and no sync_from_ui.  For every other state the flow goes
\* on to the product lookup.
C8_SessionGate ==
    \A i \in 1..Len(posts) :
        SessionLookedUp(i) =>
            IF SessionRows(i) = <<>>
               \/ SessionRows(i)[1].state \in {"closing_control", "closed"}
            THEN /\ last.exc.kind = "OdooJsonRpcError"
                 /\ Len(calls) = 1
                 /\ calls[1].model = "pos.session"
                 /\ i = Len(posts)
                 /\ ProductLookups = {}
                 /\ CallsOf("sync_from_ui") = {}
                 /\ last.resolved = PyNone
            ELSE /\ Len(calls) >= 2
                 /\ calls[2].model = "product.product"
                 /\ ~Contains(last.exc.msg, <<"POS session ">>)
                 /\ ~Contains(last.exc.msg, <<"Unknown POS session">>)

\* A session that is closing is turned away after the lookup.
C8_Witness ==
    /\ \E i \in 1..Len(posts) :
          /\ SessionLookedUp(i)
          /\ SessionRows(i) # <<>>
          /\ SessionRows(i)[1].state = "closing_control"
    /\ last.req.lines # <<>>
    /\ last.exc.kind = "OdooJsonRpcError"
    /\ Len(calls) = 1


\* Standard roundings of an amount in thousandths to cents.
HalfUp(m) == (m + 5) \div 10
HalfEven(m) == IF m % 10 = 5 THEN (m \div 10) + ((m \div 10) % 2) ELSE (m + 5) \div 10

RECURSIVE SumSubtotals(_, _)
SumSubtotals(lines, i) ==
    IF i > Len(lines) THEN 0 ELSE lines[i].price_subtotal + SumSubtotals(lines, i + 1)

\* C9: in every order handed to sync_from_ui each line's subtotal is the
\* unit price times the quantity rounded to 2 decimal places by a standard
\* rule (a tie going up or to the even cent), and amount_total is the sum of
\* the rounded subtotals.
C9_SubtotalsRounded ==
    \A i \in CallsOf("sync_from_ui") :
        /\ \A k \in 1..Len(calls[i].args.orders[1].lines) :
              calls[i].args.orders[1].lines[k].price_subtotal \in
                  { HalfUp(calls[i].args.orders[1].lines[k].price_unit
                           * calls[i].args.orders[1].lines[k].qty),
                    HalfEven(calls[i].args.orders[1].lines[k].price_unit
                             * calls[i].args.orders[1].lines[k].qty) }
        /\ calls[i].args.orders[1].amount_total =
              SumSubtotals(calls[i].args.orders[1].lines, 1)

----------------------------------------------------------------------------
(* Properties of the transport                                             *)

\* C10 as stated: over the lifetime of one transport at most one
\* authentication request is issued, failed attempts included.
C10_AtMostOneAuthRequest == authPosts <= 1

\* C10: an authentication request is issued only while no identity is
\* held, at most one per operation; once an identity is held it is kept and
\* no authentication request is issued any more.
C10_AuthOnlyWithoutIdentity ==
    [][ /\ authPosts' \in {authPosts, authPosts + 1}
        /\ authPosts' # authPosts => uid = PyNone
        /\ uid # PyNone => (uid' = uid /\ authPosts' = authPosts) ]_vars

\* A second operation on an authenticated transport: it posts, and the one
\* authentication request of the lifetime is the first operation's.
C10_Witness ==
    /\ nops = 2
    /\ uid # PyNone
    /\ authPosts = 1
    /\ posts # <<>>
    /\ \A i \in 1..Len(posts) : posts[i].post.endpoint = "/web/dataset/call_kw"

----------------------------------------------------------------------------
(* Threads calling call_kw concurrently on one transport.  Nothing in      *)
(* call_kw or authenticate is locked, so the steps of the threads          *)
(* interleave: reading the identity slot, the authenticate request, the    *)
(* assignment of the slot, the call_kw request.                            *)

\* How a request of a thread may be answered.
RaceKinds == RespKinds

\* What every thread asks for.
RaceCall ==
    [model |-> "product.product", method |-> "search_read",
     args |-> [t |-> "product_search", field |-> SkuField, skus |-> <<"A">>,
               fields |-> <<"id", SkuField, "name", "lst_price">>],
     kwargs |-> [limit |-> 1]]

\* The transport as a thread finds it when its next request is answered as `kind`.
RaceWorld(kind) ==
    [uid |-> uid, erp |-> erp, calls |-> calls, posts |-> posts,
     authPosts |-> authPosts, script |-> [at |-> Len(posts) + 1, kind |-> kind],
     nonce |-> 0, resolved |-> PyNone]

\* call_kw entered: `if self._uid is None` is evaluated.
RaceObserve(t) ==
    /\ threads[t].pc = "idle"
    /\ calls' = Append(calls, RaceCall)
    /\ threads' = [threads EXCEPT ![t].saw = (uid = PyNone),
                                  ![t].pc = IF uid = PyNone THEN "auth" ELSE "post"]
    /\ UNCHANGED <<uid, erp, posts, authPosts, last, hist, nops, scans>>

\* What is left with the thread of an authenticate that came to `r`, and
\* what the transport has seen of it; the slot is not assigned yet.
RaceAuthRequested(t, r) ==
    /\ posts' = r.w.posts
    /\ authPosts' = r.w.authPosts
    /\ threads' = [threads EXCEPT
                      ![t].authed = (r.w.authPosts # authPosts),
                      ![t].pending = [exc |-> r.exc, val |-> r.val],
                      ![t].pc = "store"]

\* self.authenticate(): the request and the examination of the answer.
RaceAuthRequest(t) ==
    /\ threads[t].pc = "auth"
    /\ \E kind \in RaceKinds : RaceAuthRequested(t, authenticate(RaceWorld(kind)))
    /\ UNCHANGED <<uid, erp, calls, last, hist, nops, scans>>

\* self._uid = int(uid), or the exception leaves call_kw.
RaceAuthStore(t) ==
    /\ threads[t].pc = "store"
    /\ IF threads[t].pending.exc.kind # "none"
       THEN /\ threads' = [threads EXCEPT ![t].pc = "raised",
                                          ![t].exc = threads[t].pending.exc]
            /\ UNCHANGED uid
       ELSE /\ uid' = threads[t].pending.val
            /\ threads' = [threads EXCEPT ![t].pc = "post"]
    /\ UNCHANGED <<erp, calls, posts, authPosts, last, hist, nops, scans>>

\* The transport and the thread after the call_kw request came to `r`.
RaceCallPosted(t, r) ==
    /\ posts' = r.w.posts
    /\ erp' = r.w.erp
    /\ threads' = [threads EXCEPT ![t].pc = IF Raised(r) THEN "raised" ELSE "done",
                                  ![t].exc = r.exc,
                                  ![t].val = r.val]

\* The rest of call_kw: the request and its result.
RaceCallPost(t) ==
    /\ threads[t].pc = "post"
    /\ \E kind \in RaceKinds :
          RaceCallPosted(t, CallKwPost(Ret(uid, RaceWorld(kind)),
                                       [endpoint |-> "/web/dataset/call_kw"] @@ RaceCall))
    /\ UNCHANGED <<uid, calls, authPosts, last, hist, nops, scans>>

NextRace ==
    \E t \in 1..MaxThreads :
        \/ RaceObserve(t)
        \/ RaceAuthRequest(t)
        \/ RaceAuthStore(t)
        \/ RaceCallPost(t)

SpecRace == Init /\ [][NextRace]_vars

\* C11: lazy authentication is not guarded.  Every thread that found the
\* identity slot empty issues an authentication request of its own, whatever
\* the other threads have done meanwhile, so that there are as many
\* authentication requests as threads that got that far; and a thread goes
\* on to its call only with an identity set.
C11_UnguardedLazyAuth ==
    /\ \A t \in 1..MaxThreads :
          /\ (threads[t].saw /\ threads[t].pc \in {"store", "post", "done"})
                 => threads[t].authed
          /\ threads[t].pc \in {"post", "done"} => uid # PyNone
    /\ authPosts = Cardinality({t \in 1..MaxThreads : threads[t].authed})

\* Two threads both found the slot empty, both authenticated, both calls
\* were answered: two authentication requests for one transport.
C11_Witness ==
    /\ threads[1].saw /\ threads[2].saw
    /\ threads[1].authed /\ threads[2].authed
    /\ threads[1].pc = "done" /\ threads[2].pc = "done"
    /\ authPosts = 2
    /\ uid # PyNone

----------------------------------------------------------------------------
(* The methods of the transport and of the adapter called one by one, as   *)
(* the callers inside the adapter and the unit tests call them.            *)

\* The call_kw requests made directly.
UnitCalls ==
    { RaceCall,
      [model |-> "sale.order", method |-> "create",
       args |-> [t |-> "create", vals |-> SoVals(default_partner_id, <<>>, PyNone, PyNone)],
       kwargs |-> EmptyDict] }

\* client.authenticate()
ClientAuthenticate ==
    /\ Idle
    /\ \E script \in Scripts :
          Finish("authenticate", [held |-> uid], authenticate(World(script)))
    /\ UNCHANGED hist

\* client.call_kw(model, method, args, kwargs)
ClientCallKw ==
    /\ Idle
    /\ \E c \in UnitCalls, script \in Scripts :
          Finish("call_kw", [call |-> c, held |-> uid],
                 call_kw(World(script), c.model, c.method, c.args, c.kwargs))
    /\ UNCHANGED hist

\* adapter.create_sale_order_draft(partner_id, lines, pricelist_id, note)
CreateSaleOrderDraft ==
    /\ Idle
    /\ \E lines \in LineSeqs, note \in Notes, script \in Scripts :
          Finish("create_draft", [lines |-> lines, note |-> note],
                 create_sale_order_draft(World(script), default_partner_id, lines,
                                         default_pricelist_id, note))
    /\ UNCHANGED hist

\* Lines with and without a price override, for a product with a list
\* price ("A") and for one the ERP gives none for ("B").
PriceLineMenu ==
    { [sku |-> "A", qty |-> 1, price_unit |-> PyNone],
      [sku |-> "A", qty |-> 2, price_unit |-> PyInt(2500)],
      [sku |-> "B", qty |-> 1, price_unit |-> PyNone],
      [sku |-> "B", qty |-> 3, price_unit |-> PyInt(1005)] }

\* adapter.build_pos_order_payload(session_id, lines, partner_id, draft, extra={})
BuildPosOrderPayload ==
    /\ Idle
    /\ \E lines \in SeqsUpTo(PriceLineMenu, MaxLines), script \in Scripts :
          Finish("build_pos", [lines |-> lines],
                 build_pos_order_payload(World(script), 1, lines, PyNone, TRUE,
                                         EmptyDict))
    /\ UNCHANGED hist

NextUnits ==
    \/ ClientAuthenticate
    \/ ClientCallKw
    \/ CreateSaleOrderDraft
    \/ BuildPosOrderPayload
    \/ TakeResult

SpecUnits == Init /\ [][NextUnits]_vars

\* Some request of the last operation failed below JSON-RPC: the connection
\* failed or timed out, or the HTTP status was not a success.
TransportFailed ==
    \E i \in 1..Len(posts) : posts[i].reply.http # "ok"

\* C12: every HTTP-level or transport failure of a request, in authenticate
\* or in call_kw, reaches the caller as OdooJsonRpcError, never as an
\* exception of the transport library.
C12_TransportFailuresWrapped ==
    (last.op \in {"authenticate", "call_kw"} /\ TransportFailed) =>
        last.exc.kind = "OdooJsonRpcError"

\* The answer to the authenticate request of the last operation, a direct
\* authenticate() (its only post).
AuthAnswer == posts'[1].reply

\* C13: authenticate fails with OdooJsonRpcError when the response carries
\* an error member, and when a response without error carries no identity;
\* whenever it fails the identity slot keeps what it held (nothing on a
\* fresh client); the slot is assigned only by a response that carries an
\* identity, and then holds exactly that identity.
C13_AuthenticateOutcome ==
    [][ last'.op = "authenticate" =>
          /\ Len(posts') = 1
          /\ (AuthAnswer.http = "ok" /\ Truthy(AuthAnswer.error)) =>
                 /\ last'.exc.kind = "OdooJsonRpcError"
                 /\ Contains(last'.exc.msg, <<"authenticate error">>)
          /\ (AuthAnswer.http = "ok" /\ ~Truthy(AuthAnswer.error)
                                     /\ ~Truthy(AuthAnswer.result)) =>
                 /\ last'.exc.kind = "OdooJsonRpcError"
                 /\ Contains(last'.exc.msg, <<"authenticate failed">>)
          /\ last'.exc.kind # "none" => uid' = uid
          /\ last'.exc.kind = "none" =>
                 /\ AuthAnswer.http = "ok" /\ ~Truthy(AuthAnswer.error)
                 /\ AuthAnswer.result.t = "int"
                 /\ uid' = AuthAnswer.result
                 /\ last'.val = AuthAnswer.result ]_vars

\* A fresh client whose authenticate was answered without an identity: the
\* adapter error, and the slot still empty.
C13_Witness ==
    /\ last.op = "authenticate"
    /\ last.req.held = PyNone
    /\ posts[1].reply.http = "ok" /\ posts[1].reply.result = PyNone
    /\ ~Truthy(posts[1].reply.error)
    /\ last.exc.kind = "OdooJsonRpcError"
    /\ uid = PyNone

\* The create call was answered, without error, with something int() does
\* not accept: TypeError or ValueError in create_sale_order_draft.
CreateAnsweredNonInt ==
    \E i \in 1..Len(posts) :
        /\ posts[i].post.method = "create"
        /\ posts[i].reply.http = "ok"
        /\ ~Truthy(posts[i].reply.error)
        /\ PyIntOf(posts[i].reply.result).exc # "none"

\* C19: create_sale_order_draft returns an integer id only when the create
\* call answered a number; when the create call answers null or a value
\* that is not a number it fails with OdooJsonRpcError and with no other
\* exception type.
C19_InvalidCreateResultWrapped ==
    last.op = "create_draft" =>
        /\ last.exc.kind = "none" =>
              /\ last.val.t = "int"
              /\ \E i \in PostsOf("create") :
                    /\ posts[i].reply.result.t = "int"
                    /\ posts[i].reply.result.v = last.val.v
        /\ CreateAnsweredNonInt => last.exc.kind = "OdooJsonRpcError"

----------------------------------------------------------------------------
(* POST /pos/checkout: the route builds an adapter from the environment    *)
(* for every request, hands the request to it and turns the outcome into   *)
(* an HTTP response.                                                       *)

\* x or y
PyOr(x, y) == IF Truthy(x) THEN x ELSE y

\* The HTTP response: a CheckoutOut body, or an error status with a detail.
HttpOk(out) == [status |-> 200, out |-> out, detail |-> <<>>]
HTTPException(status_code, detail) ==
    [status |-> status_code, out |-> PyNone, detail |-> detail]

CheckoutOut(ok, target, record_id, raw, message) ==
    [ok |-> ok, target |-> target, record_id |-> record_id, raw |-> raw,
     message |-> message]

\* What the validation of the request body (CheckoutIn, CheckoutLineIn)
\* lets through: lines present, every qty > 0, every given price_unit > 0.
\* The lines member is PyNone when the body has none, a list otherwise.
PyList(items) == [t |-> "list", items |-> items]

ValidLineIn(line) ==
    /\ line.qty > 0
    /\ line.price_unit # PyNone => line.price_unit.v > 0

ValidCheckoutIn(body) ==
    /\ body.lines.t = "list"
    /\ \A i \in 1..Len(body.lines.items) : ValidLineIn(body.lines.items[i])

\* build_odoo_adapter_from_env: the OdooConfig, or RuntimeError when a
\* required variable is not set.
build_odoo_adapter_from_env(env) ==
    IF ~env.ODOO_SET THEN Raise("RuntimeError", <<"ODOO_URL", " is not set">>)
    ELSE [kind |-> "none",
          cfg |-> [default_partner_id |-> default_partner_id,
                   default_pricelist_id |-> default_pricelist_id,
                   default_pos_session_id |-> env.DEFAULT_POS_SESSION_ID,
                   create_pos_draft |-> env.CREATE_POS_DRAFT = "true"]]

\* A request built with the store identifier copied into the note.
SaleRequest_storeInNote(body) ==
    [store_id |-> body.store_id, operator_id |-> body.operator_id,
     lines |-> body.lines.items, note |-> PyStr(body.store_id)]

\* The CheckoutRequest the route builds from the body.
SaleRequest(body) ==
    [store_id |-> body.store_id, operator_id |-> body.operator_id,
     lines |-> body.lines.items, note |-> body.note]

\* The except clauses of the route: the adapter error kind becomes 502,
\* every other exception 500.
RouteExcept(r) ==
    IF r.exc.kind = "OdooJsonRpcError"
    THEN Ret(HTTPException(502, <<"Odoo error: ">> \o r.exc.msg), r.w)
    ELSE Ret(HTTPException(500, r.exc.msg), r.w)

\* mode == "sale"
RouteSaleOut(r) ==
    IF Raised(r) THEN RouteExcept(r)
    ELSE Ret(HttpOk(CheckoutOut(r.val.ok, r.val.target, r.val.record_id, r.val.raw,
                                r.val.message)), r.w)

RouteSale(w, body) == RouteSaleOut(checkout(w, SaleRequest(body)))

\* A pos branch that answers every adapter failure with 500.
RoutePosOut_all500(r) ==
    IF Raised(r) THEN Ret(HTTPException(500, r.exc.msg), r.w)
    ELSE Ret(HttpOk(CheckoutOut(TRUE, "pos.order", PyNone, r.val, PyNone)), r.w)

\* mode == "pos"
RoutePosOut(r) ==
    IF Raised(r) THEN RouteExcept(r)
    ELSE Ret(HttpOk(CheckoutOut(TRUE, "pos.order", PyNone, r.val, PyNone)), r.w)

RoutePosWith(w, cfg, body, pos_session_id) ==
    IF ~Truthy(pos_session_id)
    THEN Ret(HTTPException(400, <<"mode='pos'", " needs pos_session_id">>), w)
    ELSE RoutePosOut(create_pos_order_from_ui(
                        w, pos_session_id.v, body.lines.items,
                        PyOr(body.partner_id, PyInt(cfg.default_partner_id)),
                        cfg.create_pos_draft, EmptyDict))

RoutePos(w, cfg, body) ==
    RoutePosWith(w, cfg, body, PyOr(body.pos_session_id, cfg.default_pos_session_id))

\* OdooJsonRpcClient.__init__: the client opens its httpx.Client.
ClientInit(w) == [w EXCEPT !.conn = "open"]

\* OdooJsonRpcClient.close
close(w) == [w EXCEPT !.conn = "closed"]

RouteWithAdapter(w, built, body) ==
    IF built.kind # "none"
    THEN Ret(HTTPException(500, <<"Internal Server Error">>), w)
    ELSE IF body.mode = "sale" THEN RouteSale(ClientInit(w), body)
    ELSE RoutePos(ClientInit(w), built.cfg, body)

\* The route function `checkout`, behind the validation of its body.
route_checkout(w, env, body) ==
    IF ~ValidCheckoutIn(body)
    THEN Ret(HTTPException(422, <<"validation">>), w)
    ELSE IF env.POS_ADAPTER # "odoo"
    THEN Ret(HTTPException(400, <<"unsupported POS_ADAPTER", ": ", env.POS_ADAPTER>>), w)
    ELSE RouteWithAdapter(w, build_odoo_adapter_from_env(env), body)

\* Inputs of the route.
RouteLineMenu ==
    { [sku |-> "A", qty |-> 1, price_unit |-> PyNone],
      [sku |-> "X", qty |-> 1, price_unit |-> PyNone],
      [sku |-> "A", qty |-> 0, price_unit |-> PyNone] }

RouteLines == {PyNone} \cup {PyList(ls) : ls \in SeqsUpTo(RouteLineMenu, MaxLines)}
StoreIds == {"store-1", "store-2"}
OperatorIds == {PyNone, PyStr("op-9")}
BodySessionIds == {PyNone, PyInt(1), PyInt(3), PyInt(9)}

DefaultEnv ==
    [POS_ADAPTER |-> "odoo", ODOO_SET |-> TRUE, CREATE_POS_DRAFT |-> "true",
     DEFAULT_POS_SESSION_ID |-> PyNone]

PosEnvs ==
    [POS_ADAPTER : {"odoo"}, ODOO_SET : {TRUE}, CREATE_POS_DRAFT : {"true", "false"},
     DEFAULT_POS_SESSION_ID : {PyNone, PyInt(1)}]

BadEnvs ==
    { [DefaultEnv EXCEPT !.POS_ADAPTER = "dummy"],
      [DefaultEnv EXCEPT !.ODOO_SET = FALSE] }

Body(store_id, operator_id, mode, lines, note, pos_session_id, partner_id) ==
    [store_id |-> store_id, operator_id |-> operator_id, mode |-> mode,
     lines |-> lines, note |-> note, pos_session_id |-> pos_session_id,
     partner_id |-> partner_id]

\* The adapter of a request is new: its client holds no identity.
\* `conn` is the httpx.Client of that adapter: "none" until the adapter is
\* constructed, then "open", "closed" once close() was invoked.
RouteWorld(script) == [World(script) EXCEPT !.uid = PyNone] @@ [conn |-> "none"]

\* The response is sent; the adapter of the request is dropped.
RouteFinish(env, body, script, r) ==
    /\ erp' = r.w.erp
    /\ calls' = r.w.calls
    /\ posts' = r.w.posts
    /\ authPosts' = r.w.authPosts
    /\ last' = [op |-> "route", req |-> [env |-> env, body |-> body, script |-> script],
                exc |-> NoExc, val |-> r.val, resolved |-> r.w.resolved,
                conn |-> r.w.conn]
    /\ nops' = nops + 1
    /\ UNCHANGED <<uid, hist, threads, scans>>

Route(env, body, script) ==
    RouteFinish(env, body, script, route_checkout(RouteWorld(script), env, body))

\* POST /pos/checkout with mode "sale" (the default)
RouteCheckoutSale ==
    /\ Idle
    /\ \E store_id \in StoreIds, operator_id \in OperatorIds, lines \in RouteLines,
          note \in Notes, script \in Scripts :
          Route(DefaultEnv,
                Body(store_id, operator_id, "sale", lines, note, PyNone, PyNone),
                script)

\* POST /pos/checkout with mode "pos"
RouteCheckoutPos ==
    /\ Idle
    /\ \E env \in PosEnvs, lines \in RouteLines, pos_session_id \in BodySessionIds,
          partner_id \in PartnerIds, script \in Scripts :
          Route(env,
                Body("store-1", PyNone, "pos", lines, PyNone, pos_session_id, partner_id),
                script)

\* POST /pos/checkout on a deployment whose environment is incomplete
RouteCheckoutMisconfigured ==
    /\ Idle
    /\ \E env \in BadEnvs, mode \in {"sale", "pos"}, lines \in RouteLines :
          Route(env, Body("store-1", PyNone, mode, lines, PyNone, PyInt(1), PyNone),
                NoFault)

NextRoute ==
    \/ RouteCheckoutSale
    \/ RouteCheckoutPos
    \/ RouteCheckoutMisconfigured
    \/ TakeResult

SpecRoute == Init /\ [][NextRoute]_vars

----------------------------------------------------------------------------
(* Properties of the route                                                 *)

\* The last operation was a request the route processed with an adapter:
\* its body passed validation and the environment names the odoo adapter
\* and carries its connection settings.
RouteProcessed(mode) ==
    /\ last.op = "route"
    /\ last.req.body.mode = mode
    /\ ValidCheckoutIn(last.req.body)
    /\ last.req.env.POS_ADAPTER = "odoo"
    /\ last.req.env.ODOO_SET

\* The ERP answered the call of one of the methods with a JSON-RPC error.
VendorErrorIn(methods) ==
    \E i \in 1..Len(posts) :
        /\ posts[i].post.method \in methods
        /\ posts[i].reply.http = "ok"
        /\ Truthy(posts[i].reply.error)

\* C14: in sale mode, when the draft creation or the confirmation fails
\* with OdooJsonRpcError (here: the ERP answers the create or the
\* action_confirm call with an error), the response has status 502 and
\* its detail carries the error text of the ERP.
C14_SaleAdapterErrorIs502 ==
    (RouteProcessed("sale") /\ VendorErrorIn({"create", "action_confirm"})) =>
        /\ last.val.status = 502
        /\ Contains(last.val.detail, <<ErrText>>)

\* C15: an error that is not OdooJsonRpcError, raised while a checkout
\* request is processed (here: the exception int() raises on the create
\* result, or the exception of the transport library), is answered with
\* status 500, never with a structured ok=false result and never with 502.
C15_UnexpectedErrorIs500 ==
    ((RouteProcessed("sale") \/ RouteProcessed("pos"))
        /\ (CreateAnsweredNonInt \/ TransportFailed)) =>
        last.val.status = 500

\* The causes of OdooJsonRpcError in the session-order flow, read off the
\* request and the exchanges of the last operation.
PaidVariantRequested == last.req.env.CREATE_POS_DRAFT # "true"

SessionTurnedAway ==
    \E i \in 1..Len(posts) :
        /\ posts[i].post.model = "pos.session"
        /\ posts[i].reply.http = "ok" /\ ~Truthy(posts[i].reply.error)
        /\ posts[i].reply.result.t = "rows"
        /\ \/ posts[i].reply.result.rows = <<>>
           \/ posts[i].reply.result.rows[1].state \in {"closing_control", "closed"}

SkuUnresolved ==
    \E i \in 1..Len(posts) :
        /\ posts[i].post.model = "product.product"
        /\ posts[i].reply.http = "ok" /\ ~Truthy(posts[i].reply.error)
        /\ posts[i].reply.result.t = "rows"
        /\ \E k \in 1..Len(last.req.body.lines.items) :
              \A j \in 1..Len(posts[i].reply.result.rows) :
                 posts[i].reply.result.rows[j].default_code
                    # last.req.body.lines.items[k].sku

VendorError ==
    \E i \in 1..Len(posts) :
        posts[i].reply.http = "ok" /\ Truthy(posts[i].reply.error)

SyncAnswered ==
    /\ posts # <<>>
    /\ posts[Len(posts)].post.method = "sync_from_ui"
    /\ posts[Len(posts)].reply.http = "ok"
    /\ ~Truthy(posts[Len(posts)].reply.error)

\* A session identifier reached the adapter.
SessionGiven ==
    Truthy(PyOr(last.req.body.pos_session_id, last.req.env.DEFAULT_POS_SESSION_ID))

C17_PosModeRejected ==
    (RouteProcessed("pos") /\ SessionGiven) =>
        /\ last.val.status = 400
        /\ Contains(last.val.detail, <<"unsupported">>)
        /\ calls = <<>>
        /\ posts = <<>>

\* C18: a request whose lines are empty or absent is answered with 422
\* before the adapter is reached: no call and no post is issued for it and
\* no order is created.
C18_EmptyLinesRejected ==
    [][ (/\ last'.op = "route"
         /\ last'.req.env.POS_ADAPTER = "odoo" /\ last'.req.env.ODOO_SET
         /\ \/ last'.req.body.lines.t = "none"
            \/ last'.req.body.lines.items = <<>>)
        => /\ last'.val.status = 422
           /\ calls' = <<>>
           /\ posts' = <<>>
           /\ erp' = erp ]_vars

\* The response, the calls, the posts and the ERP after the step are those
\* of the outcome `r`.
SameOutcome(r) ==
    /\ last'.val = r.val
    /\ calls' = r.w.calls
    /\ posts' = r.w.posts
    /\ erp' = r.w.erp

\* C20: store_id and operator_id are passed through only: the same request
\* under any other store and operator identifier, processed from the same
\* state with the same answers of the ERP, issues the same calls and posts
\* with the same payloads and gets the same response.
C20_StoreOperatorPassThrough ==
    [][ last'.op = "route" =>
          \A s \in StoreIds \cup {""}, o \in OperatorIds :
             SameOutcome(route_checkout(RouteWorld(last'.req.script), last'.req.env,
                                        [last'.req.body EXCEPT !.store_id = s,
                                                               !.operator_id = o])) ]_vars

\* A sale request of the second store by an operator, created and confirmed.
C20_Witness ==
    /\ RouteProcessed("sale")
    /\ last.req.body.store_id = "store-2"
    /\ last.req.body.operator_id = PyStr("op-9")
    /\ last.val.status = 200
    /\ last.val.out.ok
    /\ PostsOf("create") # {}

\* C21: every adapter constructed for a request has close() invoked on its
\* transport by the time the response is sent, on success and on every
\* failure path; none is dropped with its connection open.
C21_AdapterClosed ==
    (last.op = "route" /\ last.conn # "none") => last.conn = "closed"

----------------------------------------------------------------------------
(* The scan subsystem: vision/infer.py, models/scan_store.py and           *)
(* routes/scans.py.  The routes are synchronous handlers served by request *)
(* threads; the store is one module-level instance created on first use.   *)

MODEL_VERSION == "dummy-hash-v1"

\* The candidate catalogue of infer_topk_candidates.
catalog ==
    << [sku |-> "TEST-SVC", name |-> "Demo Service SKU"],
       [sku |-> "TEST-SKU", name |-> "Demo Product TEST"],
       [sku |-> "BREAD-001", name |-> "Croissant"],
       [sku |-> "BREAD-002", name |-> "Baguette"],
       [sku |-> "CAKE-001", name |-> "Cheese Cake"] >>

\* The images uploaded, and the first six bytes of the SHA-256 digest of
\* each (of b"a", b"c", b"d" and of the stand-in b"empty-image").
Images == {"a", "c", "d"}

sha256(image_bytes) ==
    CASE image_bytes = "a" -> <<202, 151, 129, 18, 202, 27>>
      [] image_bytes = "c" -> <<46, 125, 44, 3, 169, 80>>
      [] image_bytes = "d" -> <<24, 172, 62, 115, 67, 240>>
      [] OTHER -> <<110, 175, 171, 3, 84, 53>>

\* round(max(0.01, min(0.99, 0.95 - rank * 0.12 - noise / 2550.0)), 4) in
\* ten-thousandths: the nearest integer to 9500 - 1200 rank - 200 noise / 51
\* (never a tie, never outside the clamp for rank < 5 and noise < 256).
Score(rank, noise) ==
    (2 * (51 * (9500 - 1200 * rank) - 200 * noise) + 51) \div (2 * 51)

Min(a, b) == IF a < b THEN a ELSE b

\* A candidate taken without wrapping round the end of the catalogue.
Candidate_noWrap(digest, start_index, rank) ==
    [sku |-> catalog[Min(start_index + rank, Len(catalog) - 1) + 1].sku,
     name |-> catalog[Min(start_index + rank, Len(catalog) - 1) + 1].name,
     score |-> Score(rank, digest[((rank + 1) % 32) + 1])]

\* One candidate: catalog[(start_index + rank) % len(catalog)] and its score.
Candidate(digest, start_index, rank) ==
    [sku |-> catalog[((start_index + rank) % Len(catalog)) + 1].sku,
     name |-> catalog[((start_index + rank) % Len(catalog)) + 1].name,
     score |-> Score(rank, digest[((rank + 1) % 32) + 1])]

Predictions(digest, max_count) ==
    [k \in 1..max_count |-> Candidate(digest, digest[1] % Len(catalog), k - 1)]

\* infer_topk_candidates: the predictions, or ValueError for top_k < 1.
infer_topk_candidates(image_bytes, top_k) ==
    IF top_k < 1 THEN [exc |-> "ValueError", val |-> <<>>]
    ELSE [exc |-> "none",
          val |-> Predictions(sha256(IF image_bytes = "" THEN "empty-image"
                                     ELSE image_bytes),
                              Min(top_k, Len(catalog)))]

\* The detections infer_scan builds from the predictions.
Detections(predictions) ==
    << [bbox |-> <<0, 0, 1, 1>>, candidates |-> predictions] >>

\* InMemoryScanStore.__init__
NewStore == [records |-> {}, lock |-> 0]

\* ScanRecord as create_scan makes it.
ScanRecord(scan_id, store_id, image_bytes) ==
    [scan_id |-> scan_id, store_id |-> store_id, image_uri |-> scan_id,
     detections |-> <<>>, model_version |-> PyNone]

\* self._records.get(scan_id): the set of the records under that key, empty
\* or a singleton.
RecordsGet(records, scan_id) == {r \in records : r.scan_id = scan_id}

\* self._records[scan_id] = record
RecordsPut(records, scan_id, record) ==
    {r \in records : r.scan_id # scan_id} \cup {record}

\* record.<field> = value on the record object held under scan_id.
RecordSetDetections(records, scan_id, detections) ==
    {IF r.scan_id = scan_id THEN [r EXCEPT !.detections = detections] ELSE r :
        r \in records}

RecordSetVersion(records, scan_id, model_version) ==
    {IF r.scan_id = scan_id THEN [r EXCEPT !.model_version = PyStr(model_version)]
     ELSE r : r \in records}

\* Entering `with self._lock` without taking the lock.
LockAcquire_skipped(st, t) == st

\* `with self._lock`: entered, and left.
LockAcquire(st, t) == [st EXCEPT !.lock = t]
LockRelease(st) == [st EXCEPT !.lock = 0]

\* A save_detections that makes the record it does not find.
SaveMissing_upsert(st, scan_id, detections) ==
    [exc |-> "none",
     st |-> LockRelease([st EXCEPT !.records =
               @ \cup {[ScanRecord(scan_id, "", "") EXCEPT
                           !.detections = detections,
                           !.model_version = PyStr(MODEL_VERSION)]}])]

\* save_detections when the record is None: KeyError, the lock is left.
SaveMissing(st, scan_id, detections) ==
    [exc |-> "KeyError", st |-> LockRelease(st)]

\* The adapter side, which the scan routes do not touch.
AdapterVars == <<uid, erp, calls, posts, authPosts, last, hist, nops, threads>>

MaxRequests == 3

Proc(t) == scans.procs[t]
StoreOf(t) == scans.stores[Proc(t).store]

\* What a request is answered with: an HTTP status (0 for a direct call
\* of the store), the exception that left it, and the body or value.
Resp(status, exc, out) == [t |-> "resp", status |-> status, exc |-> exc, out |-> out]

\* Inputs of the scan routes.  A scan id not issued yet is an unknown one.
UploadImages == Images \cup {""}
AskIds == 1..MaxRequests
TopKs == 0..6
SomeDetections == Detections(<<[sku |-> "TEST-SKU", name |-> "n", score |-> 1]>>)

ScanRequests ==
    [op : {"create"}, image : UploadImages, scan_id : {0}, top_k : {0}]
    \cup [op : {"infer"}, image : {""}, scan_id : AskIds, top_k : TopKs]
    \cup [op : {"save"}, image : {""}, scan_id : AskIds, top_k : {0}]

\* The concurrent runs draw from fewer inputs.
RacingRequests ==
    {q \in ScanRequests : q.image \in {"", "a"} /\ q.top_k \in {0, 1, 3}
                          /\ q.scan_id \in 0..2}

\* The request as the thread takes it up.  _validate_upload_image turns
\* an empty upload away (400) and InferIn a top_k outside 1..5 (422)
\* before the handler reaches the store.
Accepted(q) ==
    [ProcIdle EXCEPT !.pc = "gs_check", !.op = q.op, !.image = q.image,
                     !.scan_id = q.scan_id, !.top_k = q.top_k,
                     !.detections = IF q.op = "save" THEN SomeDetections ELSE <<>>]

TakenUp(q) ==
    CASE q.op = "create" /\ q.image = "" ->
            [Accepted(q) EXCEPT !.pc = "done", !.resp = Resp(400, "none", PyNone)]
      [] q.op = "infer" /\ ~(q.top_k \in 1..5) ->
            [Accepted(q) EXCEPT !.pc = "done", !.resp = Resp(422, "none", PyNone)]
      [] OTHER -> Accepted(q)

\* A request arrives at thread t.
ScanStart(t) ==
    /\ Proc(t).pc = "idle"
    /\ scans.nreq < MaxRequests
    /\ \E q \in RacingRequests :
          scans' = [scans EXCEPT !.procs[t] = TakenUp(q), !.nreq = @ + 1]
    /\ UNCHANGED AdapterVars

\* A request arrives while no other request is being served.
ScanStartAlone(t) ==
    /\ \A u \in 1..MaxThreads : scans.procs[u].pc = "idle"
    /\ scans.nreq < MaxRequests
    /\ \E q \in ScanRequests :
          scans' = [scans EXCEPT !.procs[t] = TakenUp(q), !.nreq = @ + 1]
    /\ UNCHANGED AdapterVars

\* get_scan_store: `if _SCAN_STORE is None`
ScanStoreCheck(t) ==
    /\ Proc(t).pc = "gs_check"
    /\ scans' = [scans EXCEPT !.procs[t].pc =
                    IF scans.slot = 0 THEN "gs_new" ELSE "gs_ret"]
    /\ UNCHANGED AdapterVars

\* get_scan_store: InMemoryScanStore(image_dir=...)
ScanStoreNew(t) ==
    /\ Proc(t).pc = "gs_new"
    /\ scans' = [scans EXCEPT !.stores = Append(@, NewStore),
                              !.procs[t].new = Len(scans.stores) + 1,
                              !.procs[t].pc = "gs_assign"]
    /\ UNCHANGED AdapterVars

\* get_scan_store: `_SCAN_STORE = ...`
ScanStoreAssign(t) ==
    /\ Proc(t).pc = "gs_assign"
    /\ scans' = [scans EXCEPT !.slot = Proc(t).new, !.procs[t].pc = "gs_ret"]
    /\ UNCHANGED AdapterVars

\* get_scan_store: `return _SCAN_STORE`; the handler goes on with that store.
ScanStoreReturn(t) ==
    /\ Proc(t).pc = "gs_ret"
    /\ scans' = [scans EXCEPT
                    !.procs[t].store = scans.slot,
                    !.procs[t].pc = CASE Proc(t).op = "create" -> "cs_write"
                                      [] Proc(t).op = "infer" -> "gt_lock"
                                      [] OTHER -> "sv_lock"]
    /\ UNCHANGED AdapterVars

\* create_scan: uuid4() and image_path.write_bytes(image_bytes)
ScanWriteFile(t) ==
    /\ Proc(t).pc = "cs_write"
    /\ scans' = [scans EXCEPT
                    !.files = @ \cup {[scan_id |-> scans.nextId,
                                       image_bytes |-> Proc(t).image]},
                    !.nextId = @ + 1,
                    !.procs[t].scan_id = scans.nextId,
                    !.procs[t].pc = "cs_lock"]
    /\ UNCHANGED AdapterVars

\* The pc behind each `with self._lock`.
Locked(pc) ==
    CASE pc = "cs_lock" -> "cs_put"
      [] pc = "gt_lock" -> "gt_get"
      [] pc = "ld_lock" -> "ld_get"
      [] OTHER -> "sv_get"

\* `with self._lock`: the thread waits until the lock is free.
ScanAcquire(t) ==
    /\ Proc(t).pc \in {"cs_lock", "gt_lock", "ld_lock", "sv_lock"}
    /\ StoreOf(t).lock = 0
    /\ scans' = [scans EXCEPT !.stores[Proc(t).store] = LockAcquire(@, t),
                              !.procs[t].pc = Locked(Proc(t).pc)]
    /\ UNCHANGED AdapterVars

\* The record map is touched by a thread that does not hold the lock.
Bare(t) == scans.bare \/ StoreOf(t).lock # t

\* create_scan: `self._records[scan_id] = record`, the lock is left, the
\* record is returned and the route answers.
ScanPut(t) ==
    /\ Proc(t).pc = "cs_put"
    /\ scans' = [scans EXCEPT
                    !.stores[Proc(t).store] =
                        LockRelease([@ EXCEPT !.records =
                            RecordsPut(@, Proc(t).scan_id,
                                       ScanRecord(Proc(t).scan_id, "store-1",
                                                  Proc(t).image))]),
                    !.bare = Bare(t),
                    !.procs[t].pc = "done",
                    !.procs[t].resp = Resp(200, "none",
                                           ScanRecord(Proc(t).scan_id, "store-1",
                                                      Proc(t).image))]
    /\ UNCHANGED AdapterVars

\* infer_scan: store.get_scan(scan_id); None is answered 404.
ScanGet(t) ==
    /\ Proc(t).pc = "gt_get"
    /\ scans' = [scans EXCEPT
                    !.stores[Proc(t).store] = LockRelease(@),
                    !.bare = Bare(t),
                    !.procs[t].pc =
                        IF RecordsGet(StoreOf(t).records, Proc(t).scan_id) = {}
                        THEN "done" ELSE "ld_lock",
                    !.procs[t].resp =
                        IF RecordsGet(StoreOf(t).records, Proc(t).scan_id) = {}
                        THEN Resp(404, "none", PyNone) ELSE PyNone]
    /\ UNCHANGED AdapterVars

\* The image bytes written for a scan.
FileBytes(scan_id) == (CHOOSE f \in scans.files : f.scan_id = scan_id).image_bytes

\* infer_scan: store.load_image_bytes(scan_id), infer_topk_candidates and
\* the detections built from the predictions.
ScanLoad(t) ==
    /\ Proc(t).pc = "ld_get"
    /\ scans' = [scans EXCEPT
                    !.stores[Proc(t).store] = LockRelease(@),
                    !.bare = Bare(t),
                    !.procs[t].pc =
                        IF RecordsGet(StoreOf(t).records, Proc(t).scan_id) = {}
                        THEN "done" ELSE "sv_lock",
                    !.procs[t].resp =
                        IF RecordsGet(StoreOf(t).records, Proc(t).scan_id) = {}
                        THEN Resp(500, "KeyError", PyNone) ELSE PyNone,
                    !.procs[t].detections =
                        IF RecordsGet(StoreOf(t).records, Proc(t).scan_id) = {}
                        THEN <<>>
                        ELSE Detections(infer_topk_candidates(
                                FileBytes(Proc(t).scan_id), Proc(t).top_k).val)]
    /\ UNCHANGED AdapterVars

\* The thread after save_detections found no record and ended as `m`.
SaveMissed(t, m) ==
    scans' = [scans EXCEPT
                !.stores[Proc(t).store] = m.st,
                !.bare = Bare(t),
                !.procs[t].pc = "done",
                !.procs[t].resp =
                    IF m.exc = "none" THEN Resp(0, "none", PyNone)
                    ELSE Resp(IF Proc(t).op = "infer" THEN 500 ELSE 0, m.exc, PyNone)]

\* save_detections: `record = self._records.get(scan_id)`
ScanSaveGet(t) ==
    /\ Proc(t).pc = "sv_get"
    /\ IF RecordsGet(StoreOf(t).records, Proc(t).scan_id) = {}
       THEN SaveMissed(t, SaveMissing(StoreOf(t), Proc(t).scan_id, Proc(t).detections))
       ELSE scans' = [scans EXCEPT !.bare = Bare(t), !.procs[t].pc = "sv_det"]
    /\ UNCHANGED AdapterVars

\* save_detections: `record.detections = detections`
ScanSaveDetections(t) ==
    /\ Proc(t).pc = "sv_det"
    /\ scans' = [scans EXCEPT
                    !.stores[Proc(t).store].records =
                        RecordSetDetections(@, Proc(t).scan_id, Proc(t).detections),
                    !.bare = Bare(t),
                    !.procs[t].pc = "sv_ver"]
    /\ UNCHANGED AdapterVars

\* save_detections: `record.model_version = model_version`
ScanSaveVersion(t) ==
    /\ Proc(t).pc = "sv_ver"
    /\ scans' = [scans EXCEPT
                    !.stores[Proc(t).store].records =
                        RecordSetVersion(@, Proc(t).scan_id, MODEL_VERSION),
                    !.bare = Bare(t),
                    !.procs[t].pc = "sv_ret"]
    /\ UNCHANGED AdapterVars

\* The record object held under a scan id.
RecordOf(t) == CHOOSE r \in StoreOf(t).records : r.scan_id = Proc(t).scan_id

\* save_detections: `self._records[scan_id] = record`, the lock is left and
\* the record is returned.
ScanSaveReturn(t) ==
    /\ Proc(t).pc = "sv_ret"
    /\ scans' = [scans EXCEPT
                    !.stores[Proc(t).store] =
                        LockRelease([@ EXCEPT !.records =
                            RecordsPut(@, Proc(t).scan_id, RecordOf(t))]),
                    !.bare = Bare(t),
                    !.procs[t].pc = IF Proc(t).op = "infer" THEN "respond" ELSE "done",
                    !.procs[t].resp =
                        IF Proc(t).op = "infer" THEN PyNone
                        ELSE Resp(0, "none", RecordOf(t))]
    /\ UNCHANGED AdapterVars

\* infer_scan: InferOut built from the record save_detections returned.
\* answers keeps, for every inference answered, the image inferred on and
\* the detections the client received.
ScanRespond(t) ==
    /\ Proc(t).pc = "respond"
    /\ scans' = [scans EXCEPT
                    !.answers = @ \cup {[image_bytes |-> FileBytes(Proc(t).scan_id),
                                         detections |-> RecordOf(t).detections]},
                    !.procs[t].pc = "done",
                    !.procs[t].resp =
                        Resp(200, "none",
                             [scan_id |-> RecordOf(t).scan_id,
                              model_version |-> PyOr(RecordOf(t).model_version,
                                                     PyStr(MODEL_VERSION)),
                              detections |-> RecordOf(t).detections])]
    /\ UNCHANGED AdapterVars

\* The response is sent; the thread is free for the next request.
ScanDone(t) ==
    /\ Proc(t).pc = "done"
    /\ scans' = [scans EXCEPT !.procs[t] = ProcIdle]
    /\ UNCHANGED AdapterVars

ScanSteps(t) ==
    \/ ScanStoreCheck(t) \/ ScanStoreNew(t) \/ ScanStoreAssign(t)
    \/ ScanStoreReturn(t) \/ ScanWriteFile(t) \/ ScanAcquire(t) \/ ScanPut(t)
    \/ ScanGet(t) \/ ScanLoad(t) \/ ScanSaveGet(t) \/ ScanSaveDetections(t)
    \/ ScanSaveVersion(t) \/ ScanSaveReturn(t) \/ ScanRespond(t) \/ ScanDone(t)

\* Requests served by concurrent threads.
NextScans == \E t \in 1..MaxThreads : ScanStart(t) \/ ScanSteps(t)

SpecScans == Init /\ [][NextScans]_vars

\* Requests served one at a time.
NextScansAlone == \E t \in 1..MaxThreads : ScanStartAlone(t) \/ ScanSteps(t)

SpecScansAlone == Init /\ [][NextScansAlone]_vars

----------------------------------------------------------------------------
(* Properties of the scan subsystem                                        *)

\* Thread t took the step.
Stepped(t) == scans'.procs[t] # scans.procs[t]

\* The step left every record of every store and every image file as it
\* was; a store made by the step is empty.
StoresKept ==
    /\ scans'.files = scans.files
    /\ \A i \in 1..Len(scans'.stores) :
          scans'.stores[i].records =
             IF i <= Len(scans.stores) THEN scans.stores[i].records ELSE {}

\* The record thread t asks for is not in the store it works on.
Missing(t) == RecordsGet(StoreOf(t).records, Proc(t).scan_id) = {}

\* C22: an inference request for a scan id the store does not hold is
\* answered 404 and none of its steps changes a record or an image file;
\* save_detections on such an id raises KeyError and changes no record.
C22_UnknownScanLeavesStore ==
    [][ \A t \in 1..MaxThreads :
          Stepped(t) =>
             /\ (Proc(t).op = "infer" /\ Proc(t).pc = "gt_get" /\ Missing(t)) =>
                   /\ scans'.procs[t].pc = "done"
                   /\ scans'.procs[t].resp.status = 404
             /\ (Proc(t).pc = "sv_get" /\ Missing(t)) =>
                   /\ scans'.procs[t].pc = "done"
                   /\ scans'.procs[t].resp.exc = "KeyError"
                   /\ StoresKept
             /\ (Proc(t).op = "infer"
                   /\ Proc(t).pc \in {"gs_check", "gs_new", "gs_assign", "gs_ret",
                                      "gt_lock", "gt_get"}) => StoresKept ]_vars

\* An inference for an unknown id answered 404 by a store that holds a scan,
\* and a direct save_detections for an unknown id ended by KeyError.
C22_Witness ==
    /\ Proc(1).pc = "done" /\ Proc(1).op = "infer" /\ Proc(1).resp.status = 404
    /\ scans.stores[Proc(1).store].records # {}
    /\ Proc(2).pc = "done" /\ Proc(2).op = "save" /\ Proc(2).resp.exc = "KeyError"

\* The SKUs of the candidates of the one detection of a detections list.
SkusOf(detections) ==
    [k \in 1..Len(detections[1].candidates) |-> detections[1].candidates[k].sku]

\* Thread t has an inference answered 200.
Inferred(t) ==
    Proc(t).pc = "done" /\ Proc(t).op = "infer" /\ Proc(t).resp.status = 200

\* Two lists agree as far as the shorter one goes.
AgreeOnPrefix(s1, s2) ==
    \A k \in 1..Min(Len(s1), Len(s2)) : s1[k] = s2[k]

----------------------------------------------------------------------------
(* Order of the remote operations within one adapter operation             *)

IsPrefix(s, t) == Len(s) <= Len(t) /\ \A i \in 1..Len(s) : s[i] = t[i]

\* model.method of the call_kw invocations of the last operation, in order,
\* and of its posts other than the authentication.
CallTrail == [i \in 1..Len(calls) |-> <<calls[i].model, calls[i].method>>]
CallPosts == SelectSeq(posts, LAMBDA x : x.post.endpoint # "/web/session/authenticate")
PostTrail == [i \in 1..Len(CallPosts) |-> <<CallPosts[i].post.model, CallPosts[i].post.method>>]

\* The ERP did not answer post i with a result: transport or HTTP failure,
\* or an error member.
PostFailed(i) == posts[i].reply.http # "ok" \/ Truthy(posts[i].reply.error)

SaleTrail ==
    << <<"product.product", "search_read">>, <<"sale.order", "create">>,
       <<"sale.order", "action_confirm">> >>

\* C24: one draft-order checkout issues product lookup, order creation and
\* confirmation in that order, each at most once; the confirmation only
\* after the creation answered an id, and with exactly that id; a failed
\* request is the last request of the checkout.
C24_SaleOrderOfCalls ==
    last.op = "checkout" =>
        /\ IsPrefix(CallTrail, SaleTrail)
        /\ IsPrefix(PostTrail, SaleTrail)
        /\ \A i \in 1..Len(posts) : PostFailed(i) => i = Len(posts)
        /\ \A j \in CallsOf("action_confirm") :
              \E i \in PostsOf("create") :
                 /\ ~PostFailed(i)
                 /\ posts[i].reply.result.t = "int"
                 /\ calls[j].args.ids = <<posts[i].reply.result.v>>
        /\ UnknownSkuCheckout => Len(calls) = 1
        /\ last.val.ok => Len(calls) = 3

\* The confirmation of the order the ERP numbered 2 failed: three calls,
\* the confirm carrying id 2, and nothing after it.
C24_Witness ==
    /\ last.op = "checkout"
    /\ Len(calls) = 3
    /\ calls[3].args.ids = <<2>>
    /\ PostFailed(Len(posts))
    /\ posts[Len(posts)].post.method = "action_confirm"
    /\ ~last.val.ok

PosTrail ==
    << <<"pos.session", "search_read">>, <<"product.product", "search_read">>,
       <<"pos.order", "sync_from_ui">> >>

\* Some line of the session-order request has a SKU the lookup did not
\* resolve.
UnknownSkuPos ==
    /\ last.op = "pos"
    /\ last.resolved # PyNone
    /\ \E i \in 1..Len(last.req.lines) :
          last.req.lines[i].sku \notin DOMAIN last.resolved.d

\* C25: the session-order flow issues session lookup, product lookup and
\* sync_from_ui in that order, each at most once; sync_from_ui only after
\* the session was found writable and every line resolved, carrying one
\* order line per request line; with an unresolved SKU the flow fails with
\* 'Unknown SKU' and submits nothing.
C25_PosOrderOfCalls ==
    last.op = "pos" =>
        /\ IsPrefix(CallTrail, PosTrail)
        /\ IsPrefix(PostTrail, PosTrail)
        /\ \A i \in 1..Len(posts) : PostFailed(i) => i = Len(posts)
        /\ \A j \in CallsOf("sync_from_ui") :
              /\ \E i \in 1..Len(posts) :
                    /\ SessionLookedUp(i)
                    /\ SessionRows(i) # <<>>
                    /\ SessionRows(i)[1].state \notin {"closing_control", "closed"}
              /\ last.resolved # PyNone
              /\ ~UnknownSkuPos
              /\ Len(calls[j].args.orders) = 1
              /\ Len(calls[j].args.orders[1].lines) = Len(last.req.lines)
        /\ UnknownSkuPos =>
              /\ last.exc.kind = "OdooJsonRpcError"
              /\ Contains(last.exc.msg, <<"Unknown SKU">>)
              /\ CallsOf("sync_from_ui") = {}
              /\ PostsOf("sync_from_ui") = {}

\* A resolved line followed by an unresolved one on an open session:
\* two calls, nothing submitted.
C25_Witness ==
    /\ UnknownSkuPos
    /\ Len(last.req.lines) = 2
    /\ last.req.lines[1].sku \in DOMAIN last.resolved.d
    /\ Len(calls) = 2
    /\ last.exc.kind = "OdooJsonRpcError"

----------------------------------------------------------------------------
(* Unit prices                                                             *)

\* The list price the ERP holds for the product with the given id, in
\* thousandths; 0 when it gives none.
ErpListPrice(id) ==
    Bind(CHOOSE i \in 1..Len(erp.products) : erp.products[i].id = id, LAMBDA i :
        IF erp.products[i].lst_price = PyNone THEN 0 ELSE erp.products[i].lst_price.v)

\* C26: a built session-order line has as unit price the override of the
\* request line when there is one, else the list price of the resolved
\* product, 0 when the ERP gives none; a draft-order line record carries
\* price_unit exactly when the request line has an override, and otherwise
\* product id and quantity only.
C26_UnitPriceSelection ==
    /\ (last.op = "build_pos" /\ last.exc = NoExc) =>
          /\ Len(last.val.lines) = Len(last.req.lines)
          /\ \A k \in 1..Len(last.req.lines) :
                last.val.lines[k].price_unit =
                   IF last.req.lines[k].price_unit # PyNone
                   THEN last.req.lines[k].price_unit.v
                   ELSE ErpListPrice(last.val.lines[k].product_id)
    /\ last.op = "create_draft" =>
          \A j \in CallsOf("create") :
             /\ Len(calls[j].args.vals.order_line) = Len(last.req.lines)
             /\ \A k \in 1..Len(last.req.lines) :
                   IF last.req.lines[k].price_unit # PyNone
                   THEN /\ DOMAIN calls[j].args.vals.order_line[k]
                              = {"product_id", "product_uom_qty", "price_unit"}
                        /\ calls[j].args.vals.order_line[k].price_unit
                              = last.req.lines[k].price_unit.v
                   ELSE DOMAIN calls[j].args.vals.order_line[k]
                              = {"product_id", "product_uom_qty"}

\* A payload of two lines: one priced by its override, one of a product
\* the ERP gives no list price for.
C26_Witness ==
    /\ last.op = "build_pos" /\ last.exc = NoExc
    /\ Len(last.req.lines) = 2
    /\ last.req.lines[1].price_unit = PyInt(2500)
    /\ last.val.lines[1].price_unit = 2500
    /\ last.req.lines[2].sku = "B" /\ last.req.lines[2].price_unit = PyNone
    /\ last.val.lines[2].price_unit = 0

----------------------------------------------------------------------------
(* Shape of the draft-order result                                         *)

\* C27: every result of the draft-order checkout has target sale.order;
\* ok = true comes with a record id and without a message, ok = false
\* without record id, without raw data and with a message.
C27_ResultShape ==
    last.op = "checkout" =>
        /\ last.exc = NoExc
        /\ last.val.target = "sale.order"
        /\ last.val.ok \in BOOLEAN
        /\ last.val.ok =>
              /\ last.val.record_id # PyNone
              /\ last.val.record_id.t = "int"
              /\ last.val.message = PyNone
        /\ ~last.val.ok =>
              /\ last.val.record_id = PyNone
              /\ last.val.raw = PyNone
              /\ last.val.message # PyNone

\* A checkout that failed after the order was created: the message is
\* there, the record id is not.
C27_Witness ==
    /\ last.op = "checkout"
    /\ ~last.val.ok
    /\ PostsOf("create") # {}
    /\ last.val.message # PyNone
    /\ last.val.record_id = PyNone

----------------------------------------------------------------------------
(* Completeness of the resolution                                          *)

\* Every SKU asked for is the default_code of some product of the ERP.
AllInCatalogue(skus) ==
    \A k \in 1..Len(skus) :
       \E i \in 1..Len(erp.products) : erp.products[i].default_code = skus[k]

\* C28: when every SKU asked for matches a product of the ERP and the
\* lookup is answered, the batched resolver returns an entry for every one
\* of them, also for a catalogue in which several products share a SKU.
C28_ResolutionComplete ==
    (last.op = "resolve" /\ last.exc = NoExc /\ ~TransportFailed
        /\ (\A i \in 1..Len(posts) : ~PostFailed(i) /\ posts[i].reply.result.t # "none")
        /\ AllInCatalogue(last.req.skus)) =>
        \A k \in 1..Len(last.req.skus) : last.req.skus[k] \in DOMAIN last.val

----------------------------------------------------------------------------
(* The store singleton and the lock of the store                           *)

\* C29: get_scan_store hands out one store per process, also when the
\* first calls run concurrently: no second store is made, every thread
\* works on the store _SCAN_STORE names, and every record created is in
\* that store, visible to every later call.
C29_OneStore ==
    /\ Len(scans.stores) <= 1
    /\ \A t \in 1..MaxThreads : Proc(t).store # 0 => Proc(t).store = scans.slot
    /\ \A i \in 1..Len(scans.stores) :
          scans.stores[i].records # {} => i = scans.slot

\* A scan was created and answered 200, and the store _SCAN_STORE names
\* does not hold it.
StrandedScan ==
    \E t \in 1..MaxThreads :
       /\ Proc(t).pc = "done" /\ Proc(t).op = "create" /\ Proc(t).resp.status = 200
       /\ scans.slot # Proc(t).store
       /\ RecordsGet(scans.stores[scans.slot].records, Proc(t).scan_id) = {}

\* The threads inside a `with self._lock` block of store i.
InsideLock(i) ==
    {t \in 1..MaxThreads :
        /\ Proc(t).store = i
        /\ Proc(t).pc \in {"cs_put", "gt_get", "ld_get", "sv_get", "sv_det",
                           "sv_ver", "sv_ret"}}

\* The record map is touched only by the thread that holds the lock; every
\* record in a map has its image file written and is the only record under
\* its id; while the lock is free detections and model version of a record
\* are both unset or both set; a scan answered as created is in the map.
StoreUnderLock ==
    /\ ~scans.bare
    /\ \A i \in 1..Len(scans.stores) :
          /\ Cardinality(InsideLock(i)) <= 1
          /\ \A t \in InsideLock(i) : scans.stores[i].lock = t
          /\ \A r \in scans.stores[i].records :
                /\ \E f \in scans.files : f.scan_id = r.scan_id
                /\ Cardinality(RecordsGet(scans.stores[i].records, r.scan_id)) = 1
                /\ r.image_uri = r.scan_id
                /\ scans.stores[i].lock = 0 =>
                      (r.detections = <<>> <=> r.model_version = PyNone)
    /\ \A t \in 1..MaxThreads :
          (Proc(t).pc = "done" /\ Proc(t).op = "create" /\ Proc(t).resp.status = 200)
             => RecordsGet(StoreOf(t).records, Proc(t).scan_id) # {}

\* A record in a map stays there under its id, and only the record a
\* save_detections addresses changes.
RecordsStay ==
    [][ \A i \in 1..Len(scans.stores) : \A r \in scans.stores[i].records :
          /\ RecordsGet(scans'.stores[i].records, r.scan_id) # {}
          /\ r \notin scans'.stores[i].records =>
                \E t \in 1..MaxThreads :
                   /\ Stepped(t) /\ Proc(t).store = i /\ Proc(t).scan_id = r.scan_id
                   /\ Proc(t).pc \in {"sv_det", "sv_ver"} ]_vars

\* C30: in every store the record map is read and written only by the one
\* thread that holds the lock; a record once in the map stays under its
\* scan id for good, as the record of that scan; a record is in the map
\* only after its image file was written; detections and model version of
\* a record change together as far as any other store operation can see,
\* and save_detections changes the addressed record only.
C30_StoreUnderLock == []StoreUnderLock /\ RecordsStay

\* While one thread is between the two assignments of save_detections,
\* another waits for the lock of the same store with a scan just written.
C30_Witness ==
    /\ Proc(1).pc = "sv_ver" /\ Proc(1).op = "infer"
    /\ Proc(2).pc = "cs_lock" /\ Proc(2).store = Proc(1).store
    /\ scans.stores[Proc(1).store].lock = 1
    /\ \E f \in scans.files : f.scan_id = Proc(2).scan_id

====
